---------------------------- MODULE Spec2Model ----------------------------
(***************************************************************************)
(* A model of the session core of bluetuith: the session store, the RPC    *)
(* socket transport (request/response engine and listener), the event bus  *)
(* with its per-subscriber forwarders, and the authorization agents.       *)
(***************************************************************************)
EXTENDS Integers, Sequences, FiniteSets, TLC

\* ------------------------------------------------------------------ bounds
NumUpdaters == 2
NumCallers == 2
MaxPublish == 3
MaxWire == 2
MaxUnsubCalls == 1
MaxWait == 2
NumAuthCalls == 2
MaxUpdates == 3
NumCreateCalls == 2
MaxOps == 2
NumPushCalls == 2

\* ------------------------------------------------------------- state
VARIABLES
    \* sessionstore.SessionStore
    adapters,       \* s.adapters : address -> AdapterData
    devices,        \* s.devices  : address -> DeviceData
    upd,            \* goroutines inside UpdateAdapter / UpdateDevice
    \* shim.ShimSession
    id,             \* s.id (request counter)
    requestMap,     \* s.requestMap : request id -> reply channel
    chans,          \* the reply channels (capacity 1), one per executor call
    callers,        \* goroutines inside Command.ExecuteWith
    connOut,        \* requests written to s.conn
    served,         \* request ids the provider has answered
    connIn,         \* lines the provider has written, not yet scanned
    sessionClosed,  \* s.sessionClosed
    ctxDone,        \* the listener context was cancelled (s.cancel called)
    connClosed,     \* s.conn.Close() was called
    peerClosed,     \* the provider closed its end of the socket
    listening,      \* the listen goroutine is running
    stopResult,     \* what the last Session.Stop() call returned
    \* eventbus (pubsub hub) and bluetooth.Subscriber
    subs,           \* per subscriber: hub channel id.C, typed channels, Done, forwarder
    pubCount,       \* number of events handed to the hub so far
    pubLog,         \* the events in the order the hub took them
    \* events on the socket
    wireLog,        \* the event lines the provider has written, in order
    provObjs,       \* the objects the provider currently reports
    handlers,       \* goroutines inside handleListenerEvent
    \* authorization
    now,            \* seconds since start
    authReq,        \* the agent request being served
    initialized,    \* authorizer.initialized
    alwaysAuthorize, \* authorizer.alwaysAuthorize
    alwaysFrom,     \* the kinds of prompt the user has answered "a" (always) to
    authCalls,      \* the goroutines serving authentication events, one per event
    \* OBEX object push (obexd, linux/obex, progress view)
    obexLog,        \* the signals obexd has emitted, in order
    obexSignals,    \* the signals waiting in the channel of watchObexSessionBus
    provTransfers,  \* obexd: the status of each transfer object
    provSession,    \* obexd: the OBEX session with the device
    sendOp,         \* the goroutine of viewActions.send
    pSessions,      \* progressView.sessions (one device address)
    removeSessionCalls, \* RemoveSession calls issued for the session
    sessionMap,     \* monitorTransfers: the transfer properties it holds
    total,          \* progressView.total : the atomic uint32 count of indicators
    \* object push operations
    createCalls,    \* the goroutines inside ObexObjectPush.CreateSession
    oppTransfers,   \* per device address: the transfer whose path the core knows
    oppLog,          \* the suspend / resume / cancel operations invoked, with outcome
    \* inbound object push (obex agent)
    pushCalls,    \* the AuthorizePush calls of obexd, one per inbound transfer
    receiveDir,    \* the inbound transfers whose file was moved to the receive directory
    \* dbushelper.PathConverter
    paths,    \* PathConverter.paths : (path type, path) -> address
    removedAdapters,    \* the adapter paths BlueZ has reported removed and not added again
    \* viewActions.send under viewOperation
    opCancel,    \* viewOperation.cancel : 0 for nil, else the send whose cancel function is held
    sends,    \* the calls of viewActions.send and the position of the goroutine of each
    \* bluetooth.MacAddress text conversion
    macRun,    \* one conversion run : its input, which conversion comes first, and the results so far
    \* appfeatures.Features
    features,    \* a Features value, an unsigned bit set
    lastFeatureOp,    \* the last call on the value : its name, its arguments and the value before it
    \* BlueZ agent
    agentCtx,    \* agent.ctx : the request whose timeout token the field holds, 0 before the first request
    agentCalls,    \* the agent method calls BlueZ has made, each in its own goroutine
    \* SessionStore removals
    removedEntries,    \* the entries a RemoveAdapter or RemoveDevice call has returned for
    \* viewActions.quit
    quitStore,    \* SessionStore.adapters as quit sees it - absent, idle or discovering, per adapter
    confirmOnQuit,    \* cfg.Values.ConfirmOnQuit
    quitRun    \* the last run of viewActions.quit - its result, the adapters Adapters() returned, the StopDiscovery calls it made

storeVars == <<adapters, devices, upd>>
rpcVars == <<id, requestMap, chans, callers, connOut, served, connIn,
             sessionClosed, ctxDone, connClosed, peerClosed, listening, stopResult>>
busVars == <<subs, pubCount, pubLog>>
wireVars == <<wireLog, provObjs, handlers>>
authVars == <<now, authReq, initialized, alwaysAuthorize, alwaysFrom>>
brokerVars == <<authCalls>>
obexVars == <<obexLog, obexSignals, provTransfers, provSession, sendOp, pSessions,
              removeSessionCalls, sessionMap, total>>
oppVars == <<createCalls, oppTransfers, oppLog>>
pushVars == <<pushCalls, receiveDir>>
pathVars == <<paths, removedAdapters>>
sendVars == <<opCancel, sends>>
macVars == <<macRun>>
featureVars == <<features, lastFeatureOp>>
agentVars == <<agentCtx, agentCalls>>
removalVars == <<removedEntries>>
quitVars == <<quitStore, confirmOnQuit, quitRun>>
vars == <<storeVars, rpcVars, busVars, wireVars, authVars, brokerVars, obexVars, oppVars, pushVars, pathVars, sendVars, macVars, featureVars, agentVars, removalVars, quitVars>>
rpcVarsButConnIn == <<id, requestMap, chans, callers, connOut, served,
                      sessionClosed, ctxDone, connClosed, peerClosed, listening, stopResult>>
beyondWire == <<authVars, brokerVars, obexVars, oppVars, pushVars, pathVars, sendVars, macVars, featureVars, agentVars, removalVars, quitVars>>
otherThanStore == <<rpcVars, busVars, wireVars, authVars, brokerVars, obexVars, oppVars, pushVars, pathVars, sendVars, macVars, featureVars, agentVars, removalVars, quitVars>>
otherThanRpc == <<storeVars, busVars, wireVars, authVars, brokerVars, obexVars, oppVars, pushVars, pathVars, sendVars, macVars, featureVars, agentVars, removalVars, quitVars>>
otherThanBus == <<storeVars, rpcVars, wireVars, authVars, brokerVars, obexVars, oppVars, pushVars, pathVars, sendVars, macVars, featureVars, agentVars, removalVars, quitVars>>
otherThanAuth == <<storeVars, rpcVars, busVars, wireVars, brokerVars, obexVars, oppVars, pushVars, pathVars, sendVars, macVars, featureVars, agentVars, removalVars, quitVars>>
otherThanBroker == <<storeVars, rpcVars, busVars, wireVars, authVars, obexVars, oppVars, pushVars, pathVars, sendVars, macVars, featureVars, agentVars, removalVars, quitVars>>
otherThanObex == <<storeVars, rpcVars, wireVars, authVars, brokerVars, oppVars, pushVars, pathVars, sendVars, macVars, featureVars, agentVars, removalVars, quitVars>>
otherThanOpp == <<storeVars, rpcVars, busVars, wireVars, authVars, brokerVars, obexVars, pushVars, pathVars, sendVars, macVars, featureVars, agentVars, removalVars, quitVars>>
otherThanPush == <<storeVars, rpcVars, wireVars, authVars, brokerVars, obexVars, oppVars, pathVars, sendVars, macVars, featureVars, agentVars, removalVars, quitVars>>
otherThanPaths == <<storeVars, rpcVars, busVars, wireVars, authVars, brokerVars, obexVars, oppVars, pushVars, sendVars, macVars, featureVars, agentVars, removalVars, quitVars>>
otherThanSend == <<storeVars, rpcVars, busVars, wireVars, authVars, brokerVars, obexVars, oppVars, pushVars, pathVars, macVars, featureVars, agentVars, removalVars, quitVars>>
otherThanMac == <<storeVars, rpcVars, busVars, wireVars, authVars, brokerVars, obexVars, oppVars, pushVars, pathVars, sendVars, featureVars, agentVars, removalVars, quitVars>>
otherThanFeatures == <<storeVars, rpcVars, busVars, wireVars, authVars, brokerVars, obexVars, oppVars, pushVars, pathVars, sendVars, macVars, agentVars, removalVars, quitVars>>
otherThanAgent == <<storeVars, rpcVars, busVars, wireVars, authVars, brokerVars, obexVars, oppVars, pushVars, pathVars, sendVars, macVars, featureVars, removalVars, quitVars>>
otherThanRemoval == <<rpcVars, busVars, wireVars, authVars, brokerVars, obexVars, oppVars, pushVars, pathVars, sendVars, macVars, featureVars, agentVars, quitVars>>
otherThanQuit == <<storeVars, rpcVars, busVars, wireVars, authVars, brokerVars, obexVars, oppVars, pushVars, pathVars, sendVars, macVars, featureVars, agentVars, removalVars>>

\* ============================================================ SessionStore

AdapterAddrs == {"A1"}
DeviceAddrs == {"D1"}
Updaters == 1..NumUpdaters

\* The property bags a merge function applies (DecodeDeviceFunc / DecodeAdapterFunc,
\* UnmarshalRawEvent): the properties named are overwritten, the rest is kept.
DeviceMerges == {[Connected |-> TRUE], [Paired |-> TRUE], [Connected |-> FALSE]}
AdapterMerges == {[Powered |-> TRUE], [Discovering |-> TRUE], [Powered |-> FALSE]}

MergeInto(snapshot, props) ==
    [p \in DOMAIN snapshot |-> IF p \in DOMAIN props THEN props[p] ELSE snapshot[p]]

\* xsync.MapOf operations
MapLoadOk(m, k) == k \in DOMAIN m
MapStore(m, k, v) == [x \in (DOMAIN m) \cup {k} |-> IF x = k THEN v ELSE m[x]]
MapDelete(m, k) == [x \in (DOMAIN m) \ {k} |-> m[x]]

IdleUpdater == [pc |-> "idle", kind |-> "none", addr |-> "none", props |-> <<>>,
                fails |-> FALSE, base |-> <<>>, local |-> <<>>, err |-> "none"]

StoreOf(kind) == IF kind = "adapter" THEN adapters ELSE devices

\* UpdateAdapter / UpdateDevice, first half: the Load of the entry.
UpdateLoad(u, kind, addr, props, fails) ==
    /\ upd[u].pc = "idle"
    /\ IF MapLoadOk(StoreOf(kind), addr)
       THEN upd' = [upd EXCEPT ![u] = [pc |-> "loaded", kind |-> kind, addr |-> addr,
                                        props |-> props, fails |-> fails,
                                        base |-> StoreOf(kind)[addr],
                                        local |-> StoreOf(kind)[addr], err |-> "none"]]
       ELSE upd' = [upd EXCEPT ![u] = [pc |-> "done", kind |-> kind, addr |-> addr,
                                        props |-> props, fails |-> fails,
                                        base |-> <<>>, local |-> <<>>,
                                        err |-> "not-found"]]
    /\ UNCHANGED <<adapters, devices>>

\* What UpdateAdapter / UpdateDevice writes back after a successful merge.
StoredAfterMerge(m, addr, merged) == MapStore(m, addr, merged)

\* A failed merge whose local copy is written back all the same.
StoredAfterFailedMergeWritten(m, addr, merged) == MapStore(m, addr, merged)

\* What UpdateAdapter / UpdateDevice leaves in the map when the merge function returns
\* an error: the function returns before the Store.
StoredAfterFailedMerge(m, addr, merged) == m

\* UpdateAdapter / UpdateDevice, second half: the merge on the local copy and the Store.
UpdateStore(u) ==
    /\ upd[u].pc = "loaded"
    /\ LET r == upd[u]
           merged == MergeInto(r.local, r.props)
       IN IF r.fails
          THEN /\ upd' = [upd EXCEPT ![u].pc = "done", ![u].err = "merge-error",
                                     ![u].local = merged]
               /\ IF r.kind = "adapter"
                  THEN /\ adapters' = StoredAfterFailedMerge(adapters, r.addr, merged)
                       /\ UNCHANGED devices
                  ELSE /\ devices' = StoredAfterFailedMerge(devices, r.addr, merged)
                       /\ UNCHANGED adapters
          ELSE /\ upd' = [upd EXCEPT ![u].pc = "done", ![u].local = merged]
               /\ IF r.kind = "adapter"
                  THEN /\ adapters' = StoredAfterMerge(adapters, r.addr, merged)
                       /\ UNCHANGED devices
                  ELSE /\ devices' = StoredAfterMerge(devices, r.addr, merged)
                       /\ UNCHANGED adapters

UpdateAdapter(u) ==
    /\ \E a \in AdapterAddrs, m \in AdapterMerges, f \in BOOLEAN :
          UpdateLoad(u, "adapter", a, m, f)
    /\ UNCHANGED otherThanStore

UpdateDevice(u) ==
    /\ \E a \in DeviceAddrs, m \in DeviceMerges, f \in BOOLEAN :
          UpdateLoad(u, "device", a, m, f)
    /\ UNCHANGED otherThanStore

UpdateMergeStore(u) ==
    /\ UpdateStore(u)
    /\ UNCHANGED otherThanStore

InitStore ==
    /\ adapters = [a \in AdapterAddrs |-> [Powered |-> FALSE, Discovering |-> FALSE]]
    /\ devices = [d \in DeviceAddrs |-> [Connected |-> FALSE, Paired |-> FALSE]]
    /\ upd = [u \in Updaters |-> IdleUpdater]

NextStore ==
    \E u \in Updaters : UpdateAdapter(u) \/ UpdateDevice(u) \/ UpdateMergeStore(u)

\* ============================================================ RPC transport

Callers == 1..NumCallers
Commands == {"adapter list", "device pair"}

NoResult == [kind |-> "none", rid |-> 0, data |-> "none"]
ErrSessionNotExist == [kind |-> "session-not-exist", rid |-> 0, data |-> "none"]
ErrSessionStop == [kind |-> "session-stopped", rid |-> 0, data |-> "none"]
ErrMethodTimeout == [kind |-> "method-timeout", rid |-> 0, data |-> "none"]
ErrWrite == [kind |-> "write-error", rid |-> 0, data |-> "none"]

EmptyChan == [buf |-> <<>>, closed |-> FALSE]
IdleCaller == [pc |-> "idle", cmd |-> "none", reqId |-> 0, result |-> NoResult,
               lostWhileWaiting |-> FALSE]

\* s.id.Inc()
\* An id counter that is read without being incremented.
NextIdStuck(i) == i

NextId(i) == i + 1

\* What the provider answers to a command.
ResultOf(cmd) == "result of " \o cmd

\* executor, up to the sessionClosed test (before the lock is taken).
ExecutorEnter(c) ==
    /\ callers[c].pc = "idle"
    /\ \E cmd \in Commands :
          IF sessionClosed
          THEN callers' = [callers EXCEPT ![c].pc = "done", ![c].cmd = cmd,
                                          ![c].result = ErrSessionNotExist]
          ELSE callers' = [callers EXCEPT ![c].pc = "locked", ![c].cmd = cmd]
    /\ UNCHANGED <<id, requestMap, chans, connOut, served, connIn, sessionClosed,
                   ctxDone, connClosed, peerClosed, listening, stopResult>>
    /\ UNCHANGED otherThanRpc

\* executor under s.Lock: allocate the id, register the reply channel, write the request.
ExecutorSend(c) ==
    /\ callers[c].pc = "locked"
    /\ id' = NextId(id)
    /\ requestMap' = MapStore(requestMap, id', c)
    /\ chans' = [chans EXCEPT ![c] = EmptyChan]
    /\ IF connClosed \/ peerClosed
       THEN /\ callers' = [callers EXCEPT ![c].pc = "done", ![c].reqId = id',
                                          ![c].result = ErrWrite]
            /\ UNCHANGED connOut
       ELSE /\ callers' = [callers EXCEPT ![c].pc = "waiting", ![c].reqId = id']
            /\ connOut' = connOut \cup {[request_id |-> id', command |-> callers[c].cmd]}
    /\ UNCHANGED <<served, connIn, sessionClosed, ctxDone, connClosed, peerClosed,
                   listening, stopResult>>
    /\ UNCHANGED otherThanRpc

\* The provider answers one of the requests it has read, in any order.
ProviderRespond ==
    /\ ~peerClosed
    /\ \E req \in connOut, st \in {"ok", "error"} :
          /\ req.request_id \notin served
          /\ served' = served \cup {req.request_id}
          /\ connIn' = Append(connIn, [event_id |-> 0, request_id |-> req.request_id,
                                       status |-> st, data |-> ResultOf(req.command)])
    /\ UNCHANGED <<id, requestMap, chans, callers, connOut, sessionClosed, ctxDone,
                   connClosed, peerClosed, listening, stopResult>>
    /\ UNCHANGED otherThanRpc

\* The provider goes away: the connection is lost.
ProviderClose ==
    /\ ~peerClosed
    /\ peerClosed' = TRUE
    /\ UNCHANGED <<id, requestMap, chans, callers, connOut, served, connIn,
                   sessionClosed, ctxDone, connClosed, listening, stopResult>>
    /\ UNCHANGED otherThanRpc

\* sendData of listen: the channels a select among <-ctx.Done(), c <- m and default
\* can leave behind.
SendData(ch, m) ==
    LET room == Len(ch.buf) < 1 /\ ~ch.closed
    IN  (IF ctxDone /\ ~ch.closed THEN {[ch EXCEPT !.closed = TRUE]} ELSE {})
        \cup (IF room THEN {[buf |-> Append(ch.buf, m), closed |-> TRUE]} ELSE {})
        \cup (IF ~room /\ ~(ctxDone /\ ~ch.closed) THEN {ch} ELSE {})

\* The reply channel the listener hands a response to.
ReplyChanFor(m) == requestMap[m.request_id]

\* listen, one scanned line that is a response (EventId = 0).
ListenResponse ==
    /\ listening
    /\ connIn # <<>>
    /\ Head(connIn).event_id = 0
    /\ connIn' = Tail(connIn)
    /\ LET m == Head(connIn)
       IN IF MapLoadOk(requestMap, m.request_id)
          THEN /\ requestMap' = MapDelete(requestMap, m.request_id)
               /\ \E ch \in SendData(chans[ReplyChanFor(m)], m) :
                     chans' = [chans EXCEPT ![ReplyChanFor(m)] = ch]
          ELSE UNCHANGED <<requestMap, chans>>
    /\ UNCHANGED <<id, callers, connOut, served, sessionClosed, ctxDone, connClosed,
                   peerClosed, listening, stopResult>>
    /\ UNCHANGED otherThanRpc

\* reset(true) with cleanup(): mark the session closed, cancel the context, close the socket.
ResetClosed ==
    /\ sessionClosed' = TRUE
    /\ ctxDone' = TRUE
    /\ connClosed' = TRUE

\* Stop(): ErrSessionNotExist when already closed, else reset(true).
StopEffect ==
    IF sessionClosed
    THEN /\ stopResult' = "session-not-exist"
         /\ UNCHANGED <<sessionClosed, ctxDone, connClosed>>
    ELSE /\ stopResult' = "ok"
         /\ ResetClosed

\* listen: scanner.Scan() fails (the socket is closed or lost), handleListenerError(err, true)
\* calls Stop() and the goroutine returns. Callers still waiting are left as they are.
ListenConnLost ==
    /\ listening
    /\ connClosed \/ (peerClosed /\ connIn = <<>>)
    /\ listening' = FALSE
    /\ StopEffect
    /\ callers' = [c \in Callers |->
                     IF callers[c].pc = "waiting" /\ chans[c] = EmptyChan
                     THEN [callers[c] EXCEPT !.lostWhileWaiting = TRUE]
                     ELSE callers[c]]
    /\ UNCHANGED <<id, requestMap, chans, connOut, served, connIn, peerClosed>>
    /\ UNCHANGED otherThanRpc

\* Session.Stop() called by the application.
Stop ==
    /\ StopEffect
    /\ UNCHANGED <<id, requestMap, chans, callers, connOut, served, connIn, peerClosed,
                   listening>>
    /\ UNCHANGED otherThanRpc

\* The error ExecuteWith returns when time.After(timeout) fires first.
\* The timeout branch returning the function's default error instead of the timeout error.
TimeoutErrorStale == ErrSessionStop

TimeoutError == ErrMethodTimeout

\* What ExecuteWith returns for a received response.
ResultOfResponse(response) ==
    IF response.status = "error"
    THEN [kind |-> "error", rid |-> response.request_id, data |-> response.data]
    ELSE IF response.status = "ok"
         THEN [kind |-> "reply", rid |-> response.request_id, data |-> response.data]
         ELSE ErrSessionStop

\* ExecuteWith: the receive from the reply channel.
ExecuteReceive(c) ==
    /\ callers[c].pc = "waiting"
    /\ chans[c].buf # <<>> \/ chans[c].closed
    /\ IF chans[c].buf # <<>>
       THEN /\ callers' = [callers EXCEPT ![c].pc = "done",
                                          ![c].result = ResultOfResponse(Head(chans[c].buf))]
            /\ chans' = [chans EXCEPT ![c].buf = Tail(chans[c].buf)]
       ELSE /\ callers' = [callers EXCEPT ![c].pc = "done", ![c].result = ErrSessionStop]
            /\ UNCHANGED chans
    /\ UNCHANGED <<id, requestMap, connOut, served, connIn, sessionClosed, ctxDone,
                   connClosed, peerClosed, listening, stopResult>>
    /\ UNCHANGED otherThanRpc

\* ExecuteWith: time.After(timeout) fires.
ExecuteTimeout(c) ==
    /\ callers[c].pc = "waiting"
    /\ callers' = [callers EXCEPT ![c].pc = "done", ![c].result = TimeoutError]
    /\ UNCHANGED <<id, requestMap, chans, connOut, served, connIn, sessionClosed, ctxDone,
                   connClosed, peerClosed, listening, stopResult>>
    /\ UNCHANGED otherThanRpc

InitRpc ==
    /\ id = 0
    /\ requestMap = <<>>
    /\ chans = [c \in Callers |-> EmptyChan]
    /\ callers = [c \in Callers |-> IdleCaller]
    /\ connOut = {}
    /\ served = {}
    /\ connIn = <<>>
    /\ sessionClosed = FALSE
    /\ ctxDone = FALSE
    /\ connClosed = FALSE
    /\ peerClosed = FALSE
    /\ listening = TRUE
    /\ stopResult = "none"

NextRpc ==
    \/ \E c \in Callers : ExecutorEnter(c)
    \/ \E c \in Callers : ExecutorSend(c)
    \/ \E c \in Callers : ExecuteReceive(c)
    \/ \E c \in Callers : ExecuteTimeout(c)
    \/ ProviderRespond
    \/ ProviderClose
    \/ ListenResponse
    \/ ListenConnLost
    \/ Stop

\* ============================================================ event bus

Subs == {"sub1"}
Actions == {"added", "updated", "removed"}

\* pubsub.New[uint, any](10): the capacity of every channel Sub returns.
BusCapacity == 10
\* make(chan N, 1), make(chan U, 1): the capacity of the typed channels.
TypedCapacity == 1
\* Done made without a buffer: the non-blocking send finds no receiver and is skipped.
DoneCapacityUnbuffered == 1 - 1

\* make(chan struct{}, 1): the capacity of Done.
DoneCapacity == 1

\* The Go type of N and of U in each EventGroup[N, U].
NewDataType(group) ==
    CASE group = "adapter" -> "AdapterData"
      [] group = "device" -> "DeviceData"
      [] group = "objectpush" -> "ObjectPushData"
      [] group = "media" -> "MediaData"
      [] OTHER -> "GenericError"

UpdatedDataType(group) ==
    CASE group = "adapter" -> "AdapterEventData"
      [] group = "device" -> "DeviceEventData"
      [] group = "objectpush" -> "ObjectPushEventData"
      [] group = "media" -> "MediaData"
      [] OTHER -> "emptyUpdatedDataEvent"

\* PublishAdded wraps the data in Event[N], PublishUpdated and PublishRemoved in Event[U].
EventTypeOf(group, action) ==
    IF action = "added" THEN NewDataType(group) ELSE UpdatedDataType(group)

NewEvent(n, w, group, action, obj) ==
    [n |-> n, w |-> w, group |-> group, action |-> action,
     type |-> EventTypeOf(group, action), obj |-> obj]

NoSub == [state |-> "none", group |-> "none", registered |-> FALSE,
          C |-> <<>>, Cclosed |-> FALSE,
          typed |-> [a \in Actions |-> <<>>], typedClosed |-> FALSE,
          done |-> 0, doneFires |-> 0, fwd |-> "none",
          unsubCalls |-> 0, pendingUnsub |-> 0,
          subscribedAt |-> 0, consumed |-> <<>>, doneSeen |-> 0]

\* A send that puts the value at the head of the buffer instead of its tail.
TrySendFront(buf, cap, v) == IF Len(buf) < cap THEN <<v>> \o buf ELSE buf

\* A send that never blocks: select { case ch <- v: default: }.
TrySend(buf, cap, v) == IF Len(buf) < cap THEN Append(buf, v) ELSE buf

\* TryPub in the hub: a non-blocking send to every channel subscribed to the topic.
HubDeliver(ss, ev) ==
    [s \in Subs |->
        IF ss[s].registered /\ ss[s].group = ev.group
        THEN [ss[s] EXCEPT !.C = TrySend(ss[s].C, BusCapacity, ev)]
        ELSE ss[s]]

\* eventbus.Publish / DefaultEventHandler.Publish
BusPublish(w, group, action, obj) ==
    /\ pubCount' = pubCount + 1
    /\ pubLog' = Append(pubLog, NewEvent(pubCount + 1, w, group, action, obj))
    /\ subs' = HubDeliver(subs, NewEvent(pubCount + 1, w, group, action, obj))

\* EventGroup.Subscribe on the default handler: Sub registers a new channel with the
\* hub, and the forwarding goroutine starts.
Subscribe(s, g) ==
    /\ subs[s].state = "none"
    /\ subs' = [subs EXCEPT ![s] = [NoSub EXCEPT !.state = "live", !.group = g,
                                                  !.registered = TRUE,
                                                  !.fwd = "running",
                                                  !.subscribedAt = Len(wireLog)]]
    /\ UNCHANGED <<pubCount, pubLog>>
    /\ UNCHANGED otherThanBus

\* EventGroup.PublishAdded / PublishUpdated / PublishRemoved called by a transport.
Publish ==
    /\ pubCount < MaxPublish
    /\ \E g \in {"device", "media"}, a \in Actions : BusPublish(0, g, a, "D1")
    /\ UNCHANGED otherThanBus

\* The channel the forwarder's type switch picks for an event, or "drop".
ForwardTarget(group, ev) ==
    IF ev.type = NewDataType(group)
    THEN (IF ev.action = "added" THEN "added" ELSE "drop")
    ELSE IF ev.type = UpdatedDataType(group)
         THEN (IF ev.action \in {"updated", "removed"} THEN ev.action ELSE "drop")
         ELSE "drop"

\* The forwarding goroutine of Subscribe: one iteration of `for data := range id.C`.
Forward(s) ==
    /\ subs[s].fwd = "running"
    /\ subs[s].C # <<>>
    /\ LET ev == Head(subs[s].C)
           t == ForwardTarget(subs[s].group, ev)
       IN subs' = [subs EXCEPT ![s].C = Tail(subs[s].C),
                               ![s].typed = IF t = "drop" THEN subs[s].typed
                                            ELSE [subs[s].typed EXCEPT
                                                    ![t] = TrySend(@, TypedCapacity, ev)]]
    /\ UNCHANGED <<pubCount, pubLog>>
    /\ UNCHANGED otherThanBus

\* The forwarding goroutine after the range loop: id.C is closed and drained, Done is
\* signalled without blocking and the typed channels are closed.
ForwardEnd(s) ==
    /\ subs[s].fwd = "running"
    /\ subs[s].C = <<>> /\ subs[s].Cclosed
    /\ subs' = [subs EXCEPT ![s].fwd = "ended",
                            ![s].typedClosed = TRUE,
                            ![s].done = IF subs[s].done < DoneCapacity
                                        THEN subs[s].done + 1 ELSE subs[s].done,
                            ![s].doneFires = IF subs[s].done < DoneCapacity
                                             THEN subs[s].doneFires + 1
                                             ELSE subs[s].doneFires]
    /\ UNCHANGED <<pubCount, pubLog>>
    /\ UNCHANGED otherThanBus

\* Subscriber.Unsubscribe: `go d.Unsub(ch, id)` only starts a goroutine.
Unsubscribe(s) ==
    /\ subs[s].state = "live"
    /\ subs[s].unsubCalls < MaxUnsubCalls
    /\ subs' = [subs EXCEPT ![s].unsubCalls = @ + 1, ![s].pendingUnsub = @ + 1]
    /\ UNCHANGED <<pubCount, pubLog>>
    /\ UNCHANGED otherThanBus

\* The hub takes the Unsub command: the channel leaves the topic and is closed; a
\* channel that is no longer registered is left alone.
HubUnsub(s) ==
    /\ subs[s].pendingUnsub > 0
    /\ subs' = [subs EXCEPT ![s].pendingUnsub = @ - 1,
                            ![s].registered = FALSE,
                            ![s].Cclosed = subs[s].Cclosed \/ subs[s].registered]
    /\ UNCHANGED <<pubCount, pubLog>>
    /\ UNCHANGED otherThanBus

\* The subscriber's select takes an event from one of its typed channels.
Consume(s) ==
    /\ \E a \in Actions :
          /\ subs[s].typed[a] # <<>>
          /\ subs' = [subs EXCEPT
                        ![s].typed[a] = Tail(@),
                        ![s].consumed = Append(@, [chan |-> a, ev |-> Head(subs[s].typed[a])])]
    /\ UNCHANGED <<pubCount, pubLog>>
    /\ UNCHANGED otherThanBus

\* The subscriber's select takes the Done signal.
ConsumeDone(s) ==
    /\ subs[s].done > 0
    /\ subs' = [subs EXCEPT ![s].done = @ - 1, ![s].doneSeen = @ + 1]
    /\ UNCHANGED <<pubCount, pubLog>>
    /\ UNCHANGED otherThanBus

InitBus ==
    /\ subs = [s \in Subs |-> NoSub]
    /\ pubCount = 0
    /\ pubLog = <<>>

NextBus ==
    \/ Publish
    \/ \E s \in Subs, g \in {"device", "media"} : Subscribe(s, g)
    \/ \E s \in Subs : Forward(s)
    \/ \E s \in Subs : ForwardEnd(s)
    \/ \E s \in Subs : Unsubscribe(s)
    \/ \E s \in Subs : HubUnsub(s)
    \/ \E s \in Subs : Consume(s)
    \/ \E s \in Subs : ConsumeDone(s)

\* A goroutine slot per event line: not started, at a step of handleListenerEvent, or
\* returned.
NoHandler == [ev |-> <<>>, pc |-> "none", local |-> <<>>]

InitWire ==
    /\ wireLog = <<>>
    /\ provObjs = {<<"adapter", a>> : a \in AdapterAddrs} \cup {<<"device", d>> : d \in DeviceAddrs}
    /\ handlers = [w \in 1..MaxWire |-> NoHandler]

\* ============================================================ events on the socket

\* bluetooth.EventID values; 0 marks a line that is a command response.
EventIdOf(group) ==
    CASE group = "error" -> 1
      [] group = "adapter" -> 2
      [] group = "device" -> 3
      [] OTHER -> 4

\* The objects the provider may report: the ones known at start and one new of each kind.
WireObjects == {<<"adapter", "A1">>, <<"adapter", "A2">>, <<"device", "D1">>, <<"device", "D2">>}

\* DeviceData.AssociatedAdapter: the adapter a device was discovered by; it does not
\* change while the device exists.
AssociatedAdapter(d) == IF d = "D1" THEN "A1" ELSE "A2"

NewSnapshot(group) ==
    IF group = "adapter" THEN [Powered |-> FALSE, Discovering |-> FALSE]
    ELSE [Connected |-> FALSE, Paired |-> FALSE]

ChangedProps(group) ==
    IF group = "adapter" THEN [Powered |-> TRUE] ELSE [Connected |-> TRUE]

\* The provider writes an event line: Added for an object it does not report yet,
\* Updated or Removed for one it reports.
ProviderEvent ==
    /\ Len(wireLog) < MaxWire
    /\ \E o \in WireObjects, a \in Actions :
          /\ (a = "added") = (o \notin provObjs)
          /\ LET ev == [event_id |-> EventIdOf(o[1]), request_id |-> 0,
                        w |-> Len(wireLog) + 1, group |-> o[1], action |-> a, obj |-> o[2]]
             IN /\ wireLog' = Append(wireLog, ev)
                /\ connIn' = Append(connIn, ev)
          /\ provObjs' = IF a = "added" THEN provObjs \cup {o}
                         ELSE IF a = "removed" THEN provObjs \ {o} ELSE provObjs
    /\ UNCHANGED <<beyondWire, handlers, storeVars, busVars, rpcVarsButConnIn>>

\* listen: a scanned line with EventId > 0 starts `go s.handleListenerEvent(ev)`.
ListenEvent ==
    /\ listening
    /\ connIn # <<>>
    /\ Head(connIn).event_id > 0
    /\ connIn' = Tail(connIn)
    /\ handlers' = [handlers EXCEPT ![Head(connIn).w] =
                                      [ev |-> Head(connIn), pc |-> "start", local |-> <<>>]]
    /\ UNCHANGED <<beyondWire, wireLog, provObjs, storeVars, busVars, rpcVarsButConnIn>>

HandlerAt(h, pc, local) == [handlers EXCEPT ![h].pc = pc, ![h].local = local]
HandlerReturns(h) == [handlers EXCEPT ![h] = [NoHandler EXCEPT !.pc = "returned"]]
PublishError(h) == BusPublish(h, "error", "added", handlers[h].ev.obj)
StoreFor(group) == IF group = "adapter" THEN adapters ELSE devices
StoreBecomes(group, m) ==
    IF group = "adapter" THEN adapters' = m /\ UNCHANGED <<devices, upd>>
    ELSE devices' = m /\ UNCHANGED <<adapters, upd>>

\* handleListenerEvent, EventActionAdded: the adapter case calls PublishUpdated and goes
\* on to fetch the properties; the device case calls PublishAdded and goes on to AddDevice.
HandleAdded(h) ==
    /\ handlers[h].pc = "start" /\ handlers[h].ev.action = "added"
    /\ IF handlers[h].ev.group = "adapter"
       THEN /\ BusPublish(h, "adapter", "updated", handlers[h].ev.obj)
            /\ handlers' = HandlerAt(h, "exec", <<>>)
       ELSE /\ BusPublish(h, "device", "added", handlers[h].ev.obj)
            /\ handlers' = HandlerAt(h, "add", NewSnapshot("device"))
    /\ UNCHANGED <<beyondWire, wireLog, provObjs, storeVars, rpcVars>>

\* handleListenerEvent, adapter Added: commands.AdapterProperties(...).ExecuteWith
\* returns the adapter or an error (published as an error event, then return).
HandleAdapterProperties(h) ==
    /\ handlers[h].pc = "exec"
    /\ \E ok \in BOOLEAN :
          IF ok THEN /\ handlers' = HandlerAt(h, "add", NewSnapshot("adapter"))
                     /\ UNCHANGED busVars
          ELSE /\ PublishError(h)
               /\ handlers' = HandlerReturns(h)
    /\ UNCHANGED <<beyondWire, wireLog, provObjs, storeVars, rpcVars>>

\* handleListenerEvent: s.store.AddAdapter / s.store.AddDevice, the last call of the
\* Added case.
HandleAdd(h) ==
    /\ handlers[h].pc = "add"
    /\ StoreBecomes(handlers[h].ev.group, MapStore(StoreFor(handlers[h].ev.group), handlers[h].ev.obj, handlers[h].local))
    /\ handlers' = HandlerReturns(h)
    /\ UNCHANGED <<beyondWire, wireLog, provObjs, busVars, rpcVars>>

\* handleListenerEvent, EventActionUpdated: UpdateAdapter / UpdateDevice loads the
\* entry; a missing entry is an error, published as an error event.
HandleUpdateLoad(h) ==
    /\ handlers[h].pc = "start" /\ handlers[h].ev.action = "updated"
    /\ IF MapLoadOk(StoreFor(handlers[h].ev.group), handlers[h].ev.obj)
       THEN /\ handlers' = HandlerAt(h, "store", StoreFor(handlers[h].ev.group)[handlers[h].ev.obj])
            /\ UNCHANGED busVars
       ELSE /\ PublishError(h)
            /\ handlers' = HandlerReturns(h)
    /\ UNCHANGED <<beyondWire, wireLog, provObjs, storeVars, rpcVars>>

\* UpdateAdapter / UpdateDevice: the merged copy is stored.
HandleUpdateStore(h) ==
    /\ handlers[h].pc = "store"
    /\ StoreBecomes(handlers[h].ev.group,
                    StoredAfterMerge(StoreFor(handlers[h].ev.group), handlers[h].ev.obj,
                                     MergeInto(handlers[h].local, ChangedProps(handlers[h].ev.group))))
    /\ handlers' = HandlerAt(h, "publish", <<>>)
    /\ UNCHANGED <<beyondWire, wireLog, provObjs, busVars, rpcVars>>

\* handleListenerEvent, EventActionUpdated: PublishUpdated(updated).
HandleUpdatePublish(h) ==
    /\ handlers[h].pc = "publish"
    /\ BusPublish(h, handlers[h].ev.group, "updated", handlers[h].ev.obj)
    /\ handlers' = HandlerReturns(h)
    /\ UNCHANGED <<beyondWire, wireLog, provObjs, storeVars, rpcVars>>

\* handleListenerEvent, EventActionRemoved: PublishRemoved, then the store removal.
HandleRemoved(h) ==
    /\ handlers[h].pc = "start" /\ handlers[h].ev.action = "removed"
    /\ BusPublish(h, handlers[h].ev.group, "removed", handlers[h].ev.obj)
    /\ handlers' = HandlerAt(h, "remove", <<>>)
    /\ UNCHANGED <<beyondWire, wireLog, provObjs, storeVars, rpcVars>>

\* s.store.RemoveAdapter / s.store.RemoveDevice
HandleRemove(h) ==
    /\ handlers[h].pc = "remove"
    /\ StoreBecomes(handlers[h].ev.group, MapDelete(StoreFor(handlers[h].ev.group), handlers[h].ev.obj))
    /\ handlers' = HandlerReturns(h)
    /\ UNCHANGED <<beyondWire, wireLog, provObjs, busVars, rpcVars>>

NextWire ==
    \/ ProviderEvent
    \/ ListenEvent
    \/ \E h \in 1..MaxWire : HandleAdded(h)
    \/ \E h \in 1..MaxWire : HandleAdapterProperties(h)
    \/ \E h \in 1..MaxWire : HandleAdd(h)
    \/ \E h \in 1..MaxWire : HandleUpdateLoad(h)
    \/ \E h \in 1..MaxWire : HandleUpdateStore(h)
    \/ \E h \in 1..MaxWire : HandleUpdatePublish(h)
    \/ \E h \in 1..MaxWire : HandleRemoved(h)
    \/ \E h \in 1..MaxWire : HandleRemove(h)
    \/ \E s \in Subs, g \in {"adapter", "device"} : Subscribe(s, g)
    \/ \E s \in Subs : Forward(s)
    \/ \E s \in Subs : Consume(s)

\* ============================================================ authorization

\* config.DefaultAuthTimeout, in seconds.
AuthTimeout == 10

AuthKinds == {"transfer", "passkey", "pairing", "service"}

\* A request: where it came from (an agent method called over D-Bus, or an
\* authentication event of the shim), how often the authorizer was called and a reply
\* was sent for it, what the initialized guard read, and whether the user was prompted.
NoRequest == [pc |-> "idle", kind |-> "none", via |-> "none", deadline |-> 0,
              err |-> FALSE, reply |-> "none", calls |-> 0, replies |-> 0,
              guard |-> "none", prompted |-> FALSE]

\* The requests the UI authorizer asks through statusBarView.waitForInput; the others
\* go through confirmModalView.getReply.
UsesStatusInput(kind) == kind \in {"transfer", "service"}

\* agent.AuthorizePush / RequestConfirmation / RequestAuthorization / AuthorizeService:
\* the context gets its deadline and the authorizer is called on the agent's goroutine.
AgentRequest(kind) ==
    /\ authReq.pc \in {"idle", "replied"}
    /\ now + AuthTimeout <= AuthTimeout + MaxWait
    /\ authReq' = [NoRequest EXCEPT !.pc = "called", !.kind = kind, !.via = "dbus",
                                    !.deadline = now + AuthTimeout]
    /\ UNCHANGED <<now, initialized, alwaysAuthorize, alwaysFrom>>
    /\ UNCHANGED otherThanAuth

\* handleListenerEvent, case EventAuthentication: CallAuthorizer picks the authorizer's
\* method for the event and calls it with a timeout made from the event's timeout_ms.
ShimAuthEvent(kind) ==
    /\ authReq.pc \in {"idle", "replied"}
    /\ now + AuthTimeout <= AuthTimeout + MaxWait
    /\ authReq' = [NoRequest EXCEPT !.pc = "called", !.kind = kind, !.via = "shim",
                                    !.deadline = now + AuthTimeout]
    /\ UNCHANGED <<now, initialized, alwaysAuthorize, alwaysFrom>>
    /\ UNCHANGED otherThanAuth

\* authorizer.setInitialized
SetInitialized ==
    /\ ~initialized
    /\ initialized' = TRUE
    /\ UNCHANGED <<now, authReq, alwaysAuthorize, alwaysFrom>>
    /\ UNCHANGED otherThanAuth

\* The guard with the test of a.initialized inverted.
SkipsPromptWhenInitialized(kind, init, always) == init \/ (kind = "service" /\ always)

\* The guard at the head of the authorizer's methods: `!a.initialized`, and for
\* AuthorizeService `!a.initialized || a.alwaysAuthorize`.
SkipsPrompt(kind, init, always) == ~init \/ (kind = "service" /\ always)

\* The head of the authorizer's method: nil when not initialized (or, for a service,
\* when always-authorize is set), the error of Device(...).Properties(), or the prompt.
AuthorizerEnter ==
    /\ authReq.pc = "called"
    /\ LET entered == [authReq EXCEPT !.calls = @ + 1,
                                      !.guard = IF initialized THEN "initialized"
                                                ELSE "not-initialized"]
       IN IF SkipsPrompt(authReq.kind, initialized, alwaysAuthorize)
          THEN authReq' = [entered EXCEPT !.pc = "returned", !.err = FALSE]
          ELSE \E propertiesOk \in BOOLEAN :
                  authReq' = IF propertiesOk
                             THEN [entered EXCEPT !.pc = "waiting", !.prompted = TRUE]
                             ELSE [entered EXCEPT !.pc = "returned", !.err = TRUE]
    /\ UNCHANGED <<now, initialized, alwaysAuthorize, alwaysFrom>>
    /\ UNCHANGED otherThanAuth

\* The keys each prompt takes: any rune for the status bar input, y or n for the modal.
KeysOf(kind) == IF UsesStatusInput(kind) THEN {"y", "n", "a"} ELSE {"y", "n"}

\* The error the authorizer's method returns for the reply it read.
ReplyIsError(kind, key) ==
    IF UsesStatusInput(kind) THEN key \notin {"y", "a"} ELSE key # "y"

\* A reply switch whose case "a" forgets to set the flag.
StickyNeverSet(always, kind, key) == always

\* case "a": a.alwaysAuthorize = true, in AuthorizeTransfer and AuthorizeService.
StickyAfter(always, kind, key) == always \/ (UsesStatusInput(kind) /\ key = "a")

\* The user answers the prompt; the method returns nil or an error.
UserReply ==
    /\ authReq.pc = "waiting"
    /\ \E key \in KeysOf(authReq.kind) :
          /\ authReq' = [authReq EXCEPT !.pc = "returned", !.err = ReplyIsError(authReq.kind, key)]
          /\ alwaysAuthorize' = StickyAfter(alwaysAuthorize, authReq.kind, key)
          /\ alwaysFrom' = IF UsesStatusInput(authReq.kind) /\ key = "a"
                           THEN alwaysFrom \cup {authReq.kind} ELSE alwaysFrom
    /\ UNCHANGED <<now, initialized>>
    /\ UNCHANGED otherThanAuth

\* confirmModalView.getReply: the select takes ctx.Done() and returns "".
ModalDeadline ==
    /\ authReq.pc = "waiting" /\ ~UsesStatusInput(authReq.kind)
    /\ now >= authReq.deadline
    /\ authReq' = [authReq EXCEPT !.pc = "returned", !.err = TRUE]
    /\ UNCHANGED <<now, initialized, alwaysAuthorize, alwaysFrom>>
    /\ UNCHANGED otherThanAuth

\* statusBarView.waitForInput: on ctx.Done() the goroutine resets the input page and
\* sends nothing, so the caller stays in `return <-input`.
StatusInputDeadline ==
    /\ authReq.pc = "waiting" /\ UsesStatusInput(authReq.kind)
    /\ now >= authReq.deadline
    /\ authReq' = [authReq EXCEPT !.pc = "blocked"]
    /\ UNCHANGED <<now, initialized, alwaysAuthorize, alwaysFrom>>
    /\ UNCHANGED otherThanAuth

\* An agent method that answers the provider with success whatever the authorizer said.
AgentReplyIgnoringError(err) == "accepted"

\* What the agent method returns to the provider: a D-Bus error (Failed, or the OBEX
\* Rejected error) when the authorizer returned an error, success otherwise.
AgentReplyFor(err) == IF err THEN "rejected" ELSE "accepted"

\* The response the shim's callback hands to AuthenticationReply: reply.Reply, or the
\* empty string when the authorizer returned an error.
ShimResponse(err) == IF err THEN "" ELSE "yes"

\* The agent method returns: an error from the authorizer is the rejection, nil accepts.
AgentReply ==
    /\ authReq.pc = "returned" /\ authReq.via = "dbus"
    /\ authReq' = [authReq EXCEPT !.pc = "replied", !.replies = @ + 1,
                                  !.reply = AgentReplyFor(authReq.err)]
    /\ UNCHANGED <<now, initialized, alwaysAuthorize, alwaysFrom>>
    /\ UNCHANGED otherThanAuth

\* The shim's callback sends the "rpc auth" command once, with the response; a response
\* other than "yes" is the rejection.
ShimAuthReply ==
    /\ authReq.pc = "returned" /\ authReq.via = "shim"
    /\ authReq' = [authReq EXCEPT !.pc = "replied", !.replies = @ + 1,
                                  !.reply = IF ShimResponse(authReq.err) = "yes"
                                            THEN "accepted" ELSE "rejected"]
    /\ UNCHANGED <<now, initialized, alwaysAuthorize, alwaysFrom>>
    /\ UNCHANGED otherThanAuth

\* A second passes; code that is ready to run (a call, a return, a select whose
\* ctx.Done() case is ready) runs before the next second.
Tick ==
    /\ now < AuthTimeout + MaxWait
    /\ authReq.pc \notin {"called", "returned"}
    /\ ~(authReq.pc = "waiting" /\ now >= authReq.deadline)
    /\ now' = now + 1
    /\ UNCHANGED <<authReq, initialized, alwaysAuthorize, alwaysFrom>>
    /\ UNCHANGED otherThanAuth

InitAuth ==
    /\ now = 0
    /\ authReq = NoRequest
    /\ initialized = FALSE
    /\ alwaysAuthorize = FALSE
    /\ alwaysFrom = {}

NextAuth ==
    \/ \E kind \in AuthKinds : AgentRequest(kind)
    \/ \E kind \in AuthKinds : ShimAuthEvent(kind)
    \/ SetInitialized
    \/ AuthorizerEnter
    \/ UserReply
    \/ ModalDeadline
    \/ StatusInputDeadline
    \/ AgentReply
    \/ ShimAuthReply
    \/ Tick

\* ============================================================ concurrent authorization

AuthCalls == 1..NumAuthCalls
AuthAddrs == {"D1", "D2"}

NoAuthCall == [pc |-> "none", kind |-> "none", addr |-> "none", err |-> FALSE]

\* listen reads an authentication event and starts `go s.handleListenerEvent(ev)`.
AuthEventArrives(i, kind, addr) ==
    /\ authCalls[i].pc = "none"
    /\ authCalls' = [authCalls EXCEPT ![i] = [NoAuthCall EXCEPT !.pc = "spawned", !.kind = kind,
                                                                !.addr = addr]]
    /\ UNCHANGED otherThanBroker

\* CallAuthorizer: the goroutine calls the authorizer's method (reply, err := authfn());
\* nothing is locked or looked up by address before the call.
CallAuthorizerEnter(i) ==
    /\ authCalls[i].pc = "spawned"
    /\ authCalls' = [authCalls EXCEPT ![i].pc = "authorizing"]
    /\ UNCHANGED otherThanBroker

\* The authorizer's method returns nil or an error.
CallAuthorizerReturn(i) ==
    /\ authCalls[i].pc = "authorizing"
    /\ \E err \in BOOLEAN :
          authCalls' = [authCalls EXCEPT ![i].pc = "returned", ![i].err = err]
    /\ UNCHANGED otherThanBroker

\* cb(*a, reply, err): the reply command is sent and the goroutine ends.
CallAuthorizerReply(i) ==
    /\ authCalls[i].pc = "returned"
    /\ authCalls' = [authCalls EXCEPT ![i] = NoAuthCall]
    /\ UNCHANGED otherThanBroker

InitBroker == authCalls = [i \in AuthCalls |-> NoAuthCall]

NextBroker ==
    \/ \E i \in AuthCalls, kind \in AuthKinds, addr \in AuthAddrs : AuthEventArrives(i, kind, addr)
    \/ \E i \in AuthCalls : CallAuthorizerEnter(i)
    \/ \E i \in AuthCalls : CallAuthorizerReturn(i)
    \/ \E i \in AuthCalls : CallAuthorizerReply(i)

\* ============================================================ OBEX object push

\* The transfer objects obexd creates for a session, in the order it creates them.
TransferIds == <<"T1", "T2">>
Transfers == {TransferIds[i] : i \in 1..Len(TransferIds)}
TransferQueued == "queued"
TransferActive == "active"
TransferSuspended == "suspended"
TransferComplete == "complete"
TransferError == "error"
TerminalStatuses == {TransferComplete, TransferError}

\* The state diagram of a transfer: the statuses obexd may report after `st`.
TransferDiagram(st) ==
    CASE st = TransferQueued -> {TransferActive, TransferError}
      [] st = TransferActive -> {TransferSuspended, TransferComplete}
      [] st = TransferSuspended -> {TransferActive}
      [] OTHER -> {}

\* A D-Bus signal of org.bluez.obex about a transfer object: the properties it
\* carries and, when Status is among them, its value.
ObexSignal(n, name, t, props, st) ==
    [n |-> n, name |-> name, t |-> t, props |-> props, status |-> st]

\* A decoder that reports one fixed status whatever the signal carries.
DecodedStatusFixed(sig) == TransferActive

\* DecodeVariantMap into a zero-valued obexTransferProperties: a property that is
\* not in the map keeps its zero value.
DecodedStatus(sig) == IF "Status" \in sig.props THEN sig.status ELSE ""

NoSendOp == [pc |-> "idle", files |-> 0, proplist |-> <<>>]
NoPSession == [registered |-> FALSE, transfers |-> {}]

\* p.total is an atomic.Uint32, kept as its two 16-bit halves: the value is
\* hi * 2^16 + lo, and the arithmetic below is arithmetic modulo 2^32.
HalfWord == 2 ^ 16

Uint32Of(k) == [hi |-> (k \div HalfWord) % HalfWord, lo |-> k % HalfWord]

\* newIndicator: p.total.Add(1)
TotalAdd(n) ==
    IF n.lo = HalfWord - 1
    THEN [hi |-> (n.hi + 1) % HalfWord, lo |-> 0]
    ELSE [n EXCEPT !.lo = n.lo + 1]

\* removeProgress: p.total.Add(^uint32(0))
TotalSubtract(n) ==
    IF n.lo = 0
    THEN [hi |-> (n.hi + HalfWord - 1) % HalfWord, lo |-> HalfWord - 1]
    ELSE [n EXCEPT !.lo = n.lo - 1]

InitObex ==
    /\ obexLog = <<>>
    /\ obexSignals = <<>>
    /\ provTransfers = [t \in Transfers |-> "none"]
    /\ provSession = "none"
    /\ sendOp = NoSendOp
    /\ pSessions = NoPSession
    /\ removeSessionCalls = 0
    /\ sessionMap = [t \in Transfers |-> "none"]
    /\ total = Uint32Of(0)

\* obexd emits a signal: it is queued on the channel watchObexSessionBus ranges over.
Emit(name, t, props, st) ==
    /\ obexLog' = Append(obexLog, ObexSignal(Len(obexLog) + 1, name, t, props, st))
    /\ obexSignals' = Append(obexSignals, ObexSignal(Len(obexLog) + 1, name, t, props, st))

\* progressView.monitorTransfers starts: it subscribes to the object push events.
MonitorSubscribe(s) == Subscribe(s, "objectpush")

MonitorRunning == \E s \in Subs : subs[s].state = "live" /\ subs[s].group = "objectpush"

\* viewActions.send up to the return of CreateSession.
SendCreateSession ==
    /\ MonitorRunning
    /\ sendOp.pc = "idle"
    /\ \/ /\ provSession' = "open"
          /\ sendOp' = [sendOp EXCEPT !.pc = "created"]
       \/ /\ sendOp' = [sendOp EXCEPT !.pc = "failed"]
          /\ UNCHANGED provSession
    /\ UNCHANGED <<obexLog, obexSignals, provTransfers, pSessions, removeSessionCalls,
                   sessionMap, total, busVars>>
    /\ UNCHANGED otherThanObex

\* viewActions.send: the file picker returns; an empty list removes the session.
SendPickFiles(n) ==
    /\ sendOp.pc = "created"
    /\ IF n = 0
       THEN /\ sendOp' = [sendOp EXCEPT !.pc = "returned"]
            /\ removeSessionCalls' = removeSessionCalls + 1
            /\ provSession' = "closed"
       ELSE /\ sendOp' = [sendOp EXCEPT !.pc = "sending", !.files = n]
            /\ UNCHANGED <<removeSessionCalls, provSession>>
    /\ UNCHANGED <<obexLog, obexSignals, provTransfers, pSessions, sessionMap, total, busVars>>
    /\ UNCHANGED otherThanObex

\* One iteration of the SendFile loop: obexd creates the transfer object (queued),
\* announces it with InterfacesAdded and replies with its properties.
SendFile(t) ==
    /\ sendOp.pc = "sending"
    /\ Len(sendOp.proplist) < sendOp.files
    /\ t = TransferIds[Len(sendOp.proplist) + 1]
    /\ provTransfers' = [provTransfers EXCEPT ![t] = TransferQueued]
    /\ Emit("InterfacesAdded", t, {"Status", "Filename"}, TransferQueued)
    /\ sendOp' = [sendOp EXCEPT !.proplist = Append(@, t)]
    /\ UNCHANGED <<provSession, pSessions, removeSessionCalls, sessionMap, total, busVars>>
    /\ UNCHANGED otherThanObex

\* SendFile returns an error: the session is removed and send returns.
SendFileFails ==
    /\ sendOp.pc = "sending"
    /\ Len(sendOp.proplist) < sendOp.files
    /\ sendOp' = [sendOp EXCEPT !.pc = "returned"]
    /\ removeSessionCalls' = removeSessionCalls + 1
    /\ provSession' = "closed"
    /\ UNCHANGED <<obexLog, obexSignals, provTransfers, pSessions, sessionMap, total, busVars>>
    /\ UNCHANGED otherThanObex

\* progressView.startTransfer, called after the last SendFile has returned.
StartTransfer ==
    /\ sendOp.pc = "sending"
    /\ Len(sendOp.proplist) = sendOp.files
    /\ pSessions' = [registered |-> TRUE,
                     transfers |-> {sendOp.proplist[i] : i \in 1..Len(sendOp.proplist)}]
    /\ sendOp' = [sendOp EXCEPT !.pc = "registered"]
    /\ UNCHANGED <<obexLog, obexSignals, provTransfers, provSession, removeSessionCalls,
                   sessionMap, total, busVars>>
    /\ UNCHANGED otherThanObex

UpdatesEmitted == Cardinality({i \in DOMAIN obexLog : obexLog[i].name # "InterfacesAdded"})

\* obexd moves a transfer along the state diagram and reports the new status.
ObexdStatusChanged(t, st) ==
    /\ UpdatesEmitted < MaxUpdates
    /\ provSession = "open"
    /\ st \in TransferDiagram(provTransfers[t])
    /\ provTransfers' = [provTransfers EXCEPT ![t] = st]
    /\ Emit("PropertiesChanged", t, {"Status"}, st)
    /\ UNCHANGED <<provSession, sendOp, pSessions, removeSessionCalls, sessionMap, total, busVars>>
    /\ UNCHANGED otherThanObex

\* obexd reports the progress of an active transfer: only Transferred changes.
ObexdProgress(t) ==
    /\ UpdatesEmitted < MaxUpdates
    /\ provSession = "open"
    /\ provTransfers[t] = TransferActive
    /\ Emit("PropertiesChanged", t, {"Transferred"}, "")
    /\ UNCHANGED <<provTransfers, provSession, sendOp, pSessions, removeSessionCalls,
                   sessionMap, total, busVars>>
    /\ UNCHANGED otherThanObex

\* obexd removes the object of a finished transfer.
ObexdTransferRemoved(t) ==
    /\ UpdatesEmitted < MaxUpdates
    /\ provTransfers[t] \in TerminalStatuses
    /\ provTransfers' = [provTransfers EXCEPT ![t] = "removed"]
    /\ Emit("InterfacesRemoved", t, {}, "")
    /\ UNCHANGED <<provSession, sendOp, pSessions, removeSessionCalls, sessionMap, total, busVars>>
    /\ UNCHANGED otherThanObex

\* The data ObexManager.parseSignalData publishes for a signal.
TransferEventData(sig) ==
    [t |-> sig.t,
     status |-> IF sig.name = "InterfacesRemoved" THEN "" ELSE DecodedStatus(sig)]

EventActionOf(sig) ==
    CASE sig.name = "InterfacesAdded" -> "added"
      [] sig.name = "PropertiesChanged" -> "updated"
      [] OTHER -> "removed"

\* watchObexSessionBus: one iteration of `for signal := range ch`, parseSignalData.
ParseSignalData ==
    /\ obexSignals # <<>>
    /\ obexSignals' = Tail(obexSignals)
    /\ BusPublish(Head(obexSignals).n, "objectpush", EventActionOf(Head(obexSignals)),
                  TransferEventData(Head(obexSignals)))
    /\ UNCHANGED <<obexLog, provTransfers, provSession, sendOp, pSessions,
                   removeSessionCalls, sessionMap, total>>
    /\ UNCHANGED otherThanObex

\* removeProgress: the session is closed when the transfer did not complete or when
\* it was the last transfer of the session.
ClosesSession(ps, t, st) ==
    ps.registered /\ (st # TransferComplete \/ ps.transfers \ {t} = {})

\* removeProgress: the session table after the transfer is taken out of its session.
\* A session that is not in the table is left alone.
SessionsAfterRemove(ps, t, st) ==
    IF ~ps.registered THEN ps
    ELSE IF ClosesSession(ps, t, st) THEN NoPSession
         ELSE [ps EXCEPT !.transfers = ps.transfers \ {t}]

RemoveProgress(t, st) ==
    /\ pSessions' = SessionsAfterRemove(pSessions, t, st)
    /\ removeSessionCalls' = IF ClosesSession(pSessions, t, st)
                             THEN removeSessionCalls + 1 ELSE removeSessionCalls

\* The Updated case: getIndicator finds the transfer's property, or addIndicator makes a
\* new indicator for a transfer the monitor does not hold.
TotalAfterGetOrAdd(n, held) == IF held = "none" THEN TotalAdd(n) ELSE n

\* monitorTransfers: one iteration of the select over the typed channels.
MonitorConsume(s) ==
    /\ subs[s].group = "objectpush"
    /\ \E a \in Actions :
          /\ subs[s].typed[a] # <<>>
          /\ LET ev == Head(subs[s].typed[a])
                 t == ev.obj.t
                 st == ev.obj.status
             IN /\ subs' = [subs EXCEPT ![s].typed[a] = Tail(@),
                                        ![s].consumed = Append(@, [chan |-> a, ev |-> ev])]
                /\ CASE a = "added" ->
                          /\ sessionMap' = [sessionMap EXCEPT ![t] = st]
                          /\ total' = TotalAdd(total)
                          /\ UNCHANGED <<pSessions, removeSessionCalls>>
                     [] a = "updated" /\ st \in TerminalStatuses ->
                          /\ RemoveProgress(t, st)
                          /\ sessionMap' = [sessionMap EXCEPT ![t] = "none"]
                          /\ total' = TotalSubtract(TotalAfterGetOrAdd(total, sessionMap[t]))
                     [] a = "updated" /\ st \notin TerminalStatuses ->
                          /\ sessionMap' = [sessionMap EXCEPT ![t] = st]
                          /\ total' = TotalAfterGetOrAdd(total, sessionMap[t])
                          /\ UNCHANGED <<pSessions, removeSessionCalls>>
                     [] a = "removed" /\ sessionMap[t] # "none" ->
                          /\ RemoveProgress(t, st)
                          /\ sessionMap' = [sessionMap EXCEPT ![t] = "none"]
                          /\ total' = TotalSubtract(total)
                     [] OTHER ->
                          UNCHANGED <<pSessions, removeSessionCalls, sessionMap, total>>
    /\ UNCHANGED <<pubCount, pubLog>>
    /\ UNCHANGED <<obexLog, obexSignals, provTransfers, provSession, sendOp>>
    /\ UNCHANGED otherThanObex

\* The goroutine of `go psession.transferSession.RemoveSession()`.
RemoveSessionRun ==
    /\ removeSessionCalls > 0
    /\ provSession = "open"
    /\ provSession' = "closed"
    /\ UNCHANGED <<obexLog, obexSignals, provTransfers, sendOp, pSessions,
                   removeSessionCalls, sessionMap, total, busVars>>
    /\ UNCHANGED otherThanObex

NextObex ==
    \/ \E s \in Subs : MonitorSubscribe(s)
    \/ SendCreateSession
    \/ \E n \in 0..Len(TransferIds) : SendPickFiles(n)
    \/ \E t \in Transfers : SendFile(t)
    \/ SendFileFails
    \/ StartTransfer
    \/ \E t \in Transfers, st \in {TransferActive, TransferSuspended, TransferComplete,
                                   TransferError} : ObexdStatusChanged(t, st)
    \/ \E t \in Transfers : ObexdProgress(t)
    \/ \E t \in Transfers : ObexdTransferRemoved(t)
    \/ ParseSignalData
    \/ \E s \in Subs : Forward(s)
    \/ \E s \in Subs : MonitorConsume(s)
    \/ RemoveSessionRun

\* ============================================================ object push sessions

CreateCalls == 1..NumCreateCalls
Transports == {"dbus", "shim"}

\* A CreateSession call: the transport it runs on, where the caller is, whether its
\* context was cancelled (and whether that was before the provider replied), the
\* session at the provider, the provider's reply, and the session path kept by the
\* core (PathConverter).
NoCreateCall == [via |-> "none", pc |-> "idle", cancelled |-> FALSE, early |-> FALSE,
                 provider |-> "none", reply |-> "none", registered |-> FALSE,
                 result |-> "none"]

\* CreateSession is called: the request goes to the provider (obexd over D-Bus, or
\* the shim provider over the socket).
CreateSessionCall(i, via) ==
    /\ createCalls[i].pc = "idle"
    /\ createCalls' = [createCalls EXCEPT ![i] = [NoCreateCall EXCEPT
                          !.via = via, !.pc = "waiting", !.provider = "pending"]]
    /\ UNCHANGED <<oppTransfers, oppLog>>
    /\ UNCHANGED otherThanOpp

\* The provider creates the session and replies.
ProviderCreatesSession(i) ==
    /\ createCalls[i].provider = "pending"
    /\ createCalls' = [createCalls EXCEPT ![i].provider = "open", ![i].reply = "sent"]
    /\ UNCHANGED <<oppTransfers, oppLog>>
    /\ UNCHANGED otherThanOpp

\* The caller cancels the context it passed to CreateSession.
CancelToken(i) ==
    /\ createCalls[i].pc = "waiting"
    /\ ~createCalls[i].cancelled
    /\ createCalls' = [createCalls EXCEPT ![i].cancelled = TRUE,
                                          ![i].early = (createCalls[i].reply = "none")]
    /\ UNCHANGED <<oppTransfers, oppLog>>
    /\ UNCHANGED otherThanOpp

\* fileTransfer.CreateSession, case <-ctx.Done(): the call returns context.Canceled.
DbusReturnCancelled(i) ==
    /\ createCalls[i].via = "dbus"
    /\ createCalls[i].pc = "waiting"
    /\ createCalls[i].cancelled
    /\ createCalls' = [createCalls EXCEPT ![i].pc = "returned", ![i].result = "cancelled"]
    /\ UNCHANGED <<oppTransfers, oppLog>>
    /\ UNCHANGED otherThanOpp

\* fileTransfer.CreateSession, case call := <-session.Done: the session path is stored.
DbusReturnReply(i) ==
    /\ createCalls[i].via = "dbus"
    /\ createCalls[i].pc = "waiting"
    /\ createCalls[i].reply = "sent"
    /\ createCalls' = [createCalls EXCEPT ![i].pc = "returned", ![i].result = "ok",
                                          ![i].reply = "taken", ![i].registered = TRUE]
    /\ UNCHANGED <<oppTransfers, oppLog>>
    /\ UNCHANGED otherThanOpp

\* obexObjectPush.CreateSession after ExecuteWith returns:
\* if ctx.Err() == context.Canceled { o.RemoveSession() }.
AfterShimReply(cancelled) == IF cancelled THEN "removing" ELSE "returned"

\* obexObjectPush.CreateSession: ExecuteWith returns with the provider's reply.
ShimReturnReply(i) ==
    /\ createCalls[i].via = "shim"
    /\ createCalls[i].pc = "waiting"
    /\ createCalls[i].reply = "sent"
    /\ createCalls' = [createCalls EXCEPT ![i].pc = AfterShimReply(createCalls[i].cancelled),
                                          ![i].result = "ok", ![i].reply = "taken"]
    /\ UNCHANGED <<oppTransfers, oppLog>>
    /\ UNCHANGED otherThanOpp

\* obexObjectPush.RemoveSession: the provider closes the session, then the call returns.
ShimRemoveSession(i) ==
    /\ createCalls[i].pc = "removing"
    /\ createCalls' = [createCalls EXCEPT ![i].pc = "returned", ![i].provider = "closed"]
    /\ UNCHANGED <<oppTransfers, oppLog>>
    /\ UNCHANGED otherThanOpp

InitSession == createCalls = [i \in CreateCalls |-> NoCreateCall]

NextSession ==
    \/ \E i \in CreateCalls, via \in Transports : CreateSessionCall(i, via)
    \/ \E i \in CreateCalls : ProviderCreatesSession(i)
    \/ \E i \in CreateCalls : CancelToken(i)
    \/ \E i \in CreateCalls : DbusReturnCancelled(i)
    \/ \E i \in CreateCalls : DbusReturnReply(i)
    \/ \E i \in CreateCalls : ShimReturnReply(i)
    \/ \E i \in CreateCalls : ShimRemoveSession(i)

\* ============================================================ transfer controls

TransferOps == {"suspend", "resume", "cancel"}

\* drawIndicator stores the event data (bluetooth.ObjectPushEventData) as the reference
\* of the row's first cell.
CellReferenceType == "ObjectPushEventData"

\* transferData: pathCell.GetReference().(bluetooth.ObjectPushData)
TransferDataOk == CellReferenceType = "ObjectPushData"

\* InterfacesAdded for a transfer, outbound or inbound: parseSignalData records the
\* transfer path under the address of the device.
TransferAppears(a, dir) ==
    /\ oppTransfers[a] = "none"
    /\ oppTransfers' = [oppTransfers EXCEPT ![a] = dir]
    /\ UNCHANGED <<createCalls, oppLog>>
    /\ UNCHANGED otherThanOpp

\* InterfacesRemoved for the transfer: the path is forgotten.
TransferDisappears(a) ==
    /\ oppTransfers[a] # "none"
    /\ oppTransfers' = [oppTransfers EXCEPT ![a] = "none"]
    /\ UNCHANGED <<createCalls, oppLog>>
    /\ UNCHANGED otherThanOpp

\* ObexObjectPush.SuspendTransfer / ResumeTransfer / CancelTransfer: the transfer path
\* is looked up by address and the method is called on it.
LibraryOutcome(transfer) == IF transfer = "none" THEN "no-path" ELSE "sent"

LibraryOp(op, a) ==
    /\ Len(oppLog) < MaxOps
    /\ oppLog' = Append(oppLog, [from |-> "api", op |-> op, addr |-> a,
                                 receiving |-> (oppTransfers[a] = "in"),
                                 outcome |-> LibraryOutcome(oppTransfers[a])])
    /\ UNCHANGED <<createCalls, oppTransfers>>
    /\ UNCHANGED otherThanOpp

\* progressView.suspendTransfer / resumeTransfer / cancelTransfer on the selected row.
ViewOutcome(op, recv, transfer) ==
    IF ~TransferDataOk THEN "ignored"
    ELSE IF recv /\ op \in {"suspend", "resume"} THEN "message"
         ELSE LibraryOutcome(transfer)

ViewOp(op, a) ==
    /\ Len(oppLog) < MaxOps
    /\ oppTransfers[a] # "none"
    /\ oppLog' = Append(oppLog, [from |-> "view", op |-> op, addr |-> a,
                                 receiving |-> (oppTransfers[a] = "in"),
                                 outcome |-> ViewOutcome(op, oppTransfers[a] = "in",
                                                         oppTransfers[a])])
    /\ UNCHANGED <<createCalls, oppTransfers>>
    /\ UNCHANGED otherThanOpp

InitControl ==
    /\ oppTransfers = [a \in AuthAddrs |-> "none"]
    /\ oppLog = <<>>

NextControl ==
    \/ \E a \in AuthAddrs, dir \in {"out", "in"} : TransferAppears(a, dir)
    \/ \E a \in AuthAddrs : TransferDisappears(a)
    \/ \E op \in TransferOps, a \in AuthAddrs : LibraryOp(op, a)
    \/ \E op \in TransferOps, a \in AuthAddrs : ViewOp(op, a)

\* ============================================================ inbound object push

PushCalls == 1..NumPushCalls

NoPushCall == [pc |-> "idle", denied |-> FALSE]

\* agent.AuthorizePush up to the call of the authorizer: the checks of the session and
\* transfer properties pass and the transfer is published with PublishAdded.
PublishBeforeAuthorize(i) ==
    BusPublish(0, "objectpush", "added", [t |-> i, status |-> TransferQueued])

AuthorizePushEnter(i) ==
    /\ pushCalls[i].pc = "idle"
    /\ PublishBeforeAuthorize(i)
    /\ pushCalls' = [pushCalls EXCEPT ![i].pc = "asking"]
    /\ UNCHANGED receiveDir
    /\ UNCHANGED otherThanPush

\* agent.AuthorizePush: a check of the session or transfer properties fails; an error
\* event is published and obexd gets org.bluez.obex.Error.Rejected.
AuthorizePushFails(i) ==
    /\ pushCalls[i].pc = "idle"
    /\ BusPublish(0, "error", "added", i)
    /\ pushCalls' = [pushCalls EXCEPT ![i].pc = "rejected"]
    /\ UNCHANGED receiveDir
    /\ UNCHANGED otherThanPush

\* authHandler.AuthorizeTransfer returns: on an error the error is published and
\* obexd gets Rejected, otherwise obexd gets the path to store the file at.
AuthorizeTransferReturns(i, err) ==
    /\ pushCalls[i].pc = "asking"
    /\ IF err
       THEN /\ BusPublish(0, "error", "added", i)
            /\ pushCalls' = [pushCalls EXCEPT ![i].pc = "rejected", ![i].denied = TRUE]
       ELSE /\ UNCHANGED busVars
            /\ pushCalls' = [pushCalls EXCEPT ![i].pc = "accepted"]
    /\ UNCHANGED receiveDir
    /\ UNCHANGED otherThanPush

\* obexd runs an accepted transfer; parseSignalData publishes each PropertiesChanged.
ObexdReceives(i, st) ==
    /\ \/ pushCalls[i].pc = "accepted" /\ st = TransferActive
       \/ pushCalls[i].pc = TransferActive /\ st = TransferComplete
    /\ BusPublish(0, "objectpush", "updated", [t |-> i, status |-> st])
    /\ pushCalls' = [pushCalls EXCEPT ![i].pc = st]
    /\ UNCHANGED receiveDir
    /\ UNCHANGED otherThanPush

\* obexd drops a rejected transfer; parseSignalData publishes InterfacesRemoved.
ObexdDropsTransfer(i) ==
    /\ pushCalls[i].pc = "rejected"
    /\ BusPublish(0, "objectpush", "removed", [t |-> i, status |-> ""])
    /\ pushCalls' = [pushCalls EXCEPT ![i].pc = "dropped"]
    /\ UNCHANGED receiveDir
    /\ UNCHANGED otherThanPush

\* removeProgress for a received transfer that is complete: savefile moves the file
\* into the receive directory.
SaveReceivedFile(i) ==
    /\ pushCalls[i].pc = TransferComplete
    /\ receiveDir' = receiveDir \cup {i}
    /\ pushCalls' = [pushCalls EXCEPT ![i].pc = "saved"]
    /\ UNCHANGED busVars
    /\ UNCHANGED otherThanPush

InitPush ==
    /\ pushCalls = [i \in PushCalls |-> NoPushCall]
    /\ receiveDir = {}

NextPush ==
    \/ \E i \in PushCalls : AuthorizePushEnter(i)
    \/ \E i \in PushCalls : AuthorizePushFails(i)
    \/ \E i \in PushCalls, err \in BOOLEAN : AuthorizeTransferReturns(i, err)
    \/ \E i \in PushCalls, st \in {TransferActive, TransferComplete} : ObexdReceives(i, st)
    \/ \E i \in PushCalls : ObexdDropsTransfer(i)
    \/ \E i \in PushCalls : SaveReceivedFile(i)

\* ============================================================ path converter

\* D-Bus object paths as sequences of components below /org/bluez.
AdapterPaths == {<<"hci0">>, <<"hci1">>}
DevicePaths == {<<"hci0", "dev1">>, <<"hci0", "dev3">>, <<"hci1", "dev2">>}
ObexSessionPath == <<"obex", "session0">>
ObexTransferPath == <<"obex", "session0", "transfer0">>

PathAddress(path) ==
    CASE path = <<"hci0">> -> "A1"
      [] path = <<"hci1">> -> "A2"
      [] path = <<"hci0", "dev1">> -> "D1"
      [] path = <<"hci0", "dev3">> -> "D3"
      [] OTHER -> "D2"

\* filepath.Dir: the path without its last component; the root is its own parent.
Dir(path) == IF path = <<>> THEN <<>> ELSE SubSeq(path, 1, Len(path) - 1)

PathKey(type, path) == [pathType |-> type, path |-> path]

\* A Range callback that leaves every entry in place.
RangeKeepsAll(k) == TRUE

\* The callback of paths.Range in RemoveAdapterDbusPath: the entries it leaves in place.
RangeKeeps(k) == k.pathType # "device" \/ Dir(k.path) = k.path

\* dbusPathConverter.RemoveAdapterDbusPath
AfterRemoveAdapterDbusPath(m, path) ==
    IF ~MapLoadOk(m, PathKey("adapter", path)) THEN m
    ELSE [k \in {x \in DOMAIN m : x # PathKey("adapter", path) /\ RangeKeeps(x)} |-> m[k]]

\* parseSignalData, InterfacesAdded with the adapter interface.
AdapterPathAdded(path) ==
    /\ ~MapLoadOk(paths, PathKey("adapter", path))
    /\ paths' = MapStore(paths, PathKey("adapter", path), PathAddress(path))
    /\ removedAdapters' = removedAdapters \ {path}
    /\ UNCHANGED otherThanPaths

\* parseSignalData, InterfacesAdded with the device interface: BlueZ announces a
\* device below an adapter it reports.
DevicePathAdded(path) ==
    /\ MapLoadOk(paths, PathKey("adapter", Dir(path)))
    /\ ~MapLoadOk(paths, PathKey("device", path))
    /\ paths' = MapStore(paths, PathKey("device", path), PathAddress(path))
    /\ UNCHANGED removedAdapters
    /\ UNCHANGED otherThanPaths

\* parseSignalData, InterfacesRemoved with the device interface.
DevicePathRemoved(path) ==
    /\ MapLoadOk(paths, PathKey("device", path))
    /\ MapLoadOk(paths, PathKey("adapter", Dir(path)))
    /\ paths' = MapDelete(paths, PathKey("device", path))
    /\ UNCHANGED removedAdapters
    /\ UNCHANGED otherThanPaths

\* obexd reports a session towards a device BlueZ reports: the session path is
\* mapped to the address of the device.
ObexSessionPathAdded(dev) ==
    /\ MapLoadOk(paths, PathKey("device", dev))
    /\ ~MapLoadOk(paths, PathKey("session", ObexSessionPath))
    /\ paths' = MapStore(paths, PathKey("session", ObexSessionPath), PathAddress(dev))
    /\ UNCHANGED removedAdapters
    /\ UNCHANGED otherThanPaths

\* obexd reports a transfer of the session: the transfer path is mapped to the
\* address of the session.
ObexTransferPathAdded ==
    /\ MapLoadOk(paths, PathKey("session", ObexSessionPath))
    /\ ~MapLoadOk(paths, PathKey("transfer", ObexTransferPath))
    /\ paths' = MapStore(paths, PathKey("transfer", ObexTransferPath),
                         paths[PathKey("session", ObexSessionPath)])
    /\ UNCHANGED removedAdapters
    /\ UNCHANGED otherThanPaths

\* obexd reports the removal of the transfer.
ObexTransferPathRemoved ==
    /\ MapLoadOk(paths, PathKey("transfer", ObexTransferPath))
    /\ paths' = MapDelete(paths, PathKey("transfer", ObexTransferPath))
    /\ UNCHANGED removedAdapters
    /\ UNCHANGED otherThanPaths

\* obexd reports the removal of the session, after that of its transfer.
ObexSessionPathRemoved ==
    /\ MapLoadOk(paths, PathKey("session", ObexSessionPath))
    /\ ~MapLoadOk(paths, PathKey("transfer", ObexTransferPath))
    /\ paths' = MapDelete(paths, PathKey("session", ObexSessionPath))
    /\ UNCHANGED removedAdapters
    /\ UNCHANGED otherThanPaths

\* parseSignalData, InterfacesRemoved with the adapter interface.
AdapterPathRemoved(path) ==
    /\ MapLoadOk(paths, PathKey("adapter", path))
    /\ paths' = AfterRemoveAdapterDbusPath(paths, path)
    /\ removedAdapters' = removedAdapters \cup {path}
    /\ UNCHANGED otherThanPaths

InitPaths ==
    /\ paths = <<>>
    /\ removedAdapters = {}

NextPaths ==
    \/ \E path \in AdapterPaths : AdapterPathAdded(path)
    \/ \E path \in DevicePaths : DevicePathAdded(path)
    \/ \E path \in DevicePaths : DevicePathRemoved(path)
    \/ \E dev \in DevicePaths : ObexSessionPathAdded(dev)
    \/ ObexTransferPathAdded
    \/ ObexTransferPathRemoved
    \/ ObexSessionPathRemoved
    \/ \E path \in AdapterPaths : AdapterPathRemoved(path)

\* ============================================================ send operations

NumSends == 3
MaxFiles == 2
Sends == 1..NumSends

NoSend == [pc |-> "idle", addr |-> "none", cancelled |-> FALSE, files |-> 0]

\* startOperation: a new operation is refused while v.cancel is set.
OperationRefused(held) == held # 0

\* viewActions.send: startOperation either refuses the operation or records its cancel
\* function and starts the goroutine, which calls CreateSession.
SendStart(i, a) ==
    /\ sends[i].pc = "idle"
    /\ IF OperationRefused(opCancel)
       THEN /\ sends' = [sends EXCEPT ![i].pc = "refused", ![i].addr = a]
            /\ UNCHANGED opCancel
       ELSE /\ sends' = [sends EXCEPT ![i].pc = "creating", ![i].addr = a]
            /\ opCancel' = i
    /\ UNCHANGED otherThanSend

\* cancelOperation(true) from the cancel key: v.cancel is cleared and the cancel
\* function of the operation that was held runs.
SendCancelKey ==
    /\ opCancel # 0
    /\ sends' = [sends EXCEPT ![opCancel].cancelled = TRUE]
    /\ opCancel' = 0
    /\ UNCHANGED otherThanSend

\* CreateSession returns an error: dofunc returns and the goroutine calls
\* cancelOperation(false), which clears v.cancel whichever operation set it.
SendCreateFails(i) ==
    /\ sends[i].pc = "creating"
    /\ sends' = [sends EXCEPT ![i].pc = "done"]
    /\ opCancel' = 0
    /\ UNCHANGED otherThanSend

\* CreateSession returns nil: dofunc calls cancelOperation(false) and shows the file picker.
SendCreated(i) ==
    /\ sends[i].pc = "creating"
    /\ ~sends[i].cancelled
    /\ sends' = [sends EXCEPT ![i].pc = "picking"]
    /\ opCancel' = 0
    /\ UNCHANGED otherThanSend

\* filepicker.Show returns n files; with none, RemoveSession and the end of dofunc.
SendPicked(i, n) ==
    /\ sends[i].pc = "picking"
    /\ IF n = 0
       THEN /\ sends' = [sends EXCEPT ![i].pc = "done"]
            /\ opCancel' = 0
       ELSE /\ sends' = [sends EXCEPT ![i].pc = "sending", ![i].files = n]
            /\ UNCHANGED opCancel
    /\ UNCHANGED otherThanSend

\* One SendFile call of the loop returns: on an error RemoveSession and the end of
\* dofunc; after the last file startTransfer and the end of dofunc.
SendFileReturns(i, ok) ==
    /\ sends[i].pc = "sending"
    /\ IF ok /\ sends[i].files > 1
       THEN /\ sends' = [sends EXCEPT ![i].files = @ - 1]
            /\ UNCHANGED opCancel
       ELSE /\ sends' = [sends EXCEPT ![i].pc = "done", ![i].files = IF ok THEN 0 ELSE @]
            /\ opCancel' = 0
    /\ UNCHANGED otherThanSend

InitSend ==
    /\ opCancel = 0
    /\ sends = [i \in Sends |-> NoSend]

NextSend ==
    \/ \E i \in Sends, a \in AuthAddrs : SendStart(i, a)
    \/ SendCancelKey
    \/ \E i \in Sends : SendCreateFails(i)
    \/ \E i \in Sends : SendCreated(i)
    \/ \E i \in Sends, n \in 0..MaxFiles : SendPicked(i, n)
    \/ \E i \in Sends, ok \in BOOLEAN : SendFileReturns(i, ok)

\* ============================================================ MacAddress

NumAddressBytes == 6
MaxAddressBytesLength == 11

\* Text is a sequence of ASCII codes.
Colon == 58
IsDigit(c) == c >= 48 /\ c <= 57
IsUpperHex(c) == c >= 65 /\ c <= 70
IsLowerHex(c) == c >= 97 /\ c <= 102

\* Integer division and remainder as Go computes them: truncated towards zero.
GoQuot(a, b) == IF a >= 0 THEN a \div b ELSE -((-a) \div b)
GoRem(a, b) == a - b * GoQuot(a, b)

RECURSIVE BitOr(_, _)
BitOr(x, y) ==
    IF x = 0 THEN y
    ELSE IF y = 0 THEN x
    ELSE (IF x % 2 = 1 \/ y % 2 = 1 THEN 1 ELSE 0) + 2 * BitOr(x \div 2, y \div 2)

\* A nibble written with lower-case letters.
NibbleCharLower(nibble) == IF nibble <= 9 THEN nibble + 48 ELSE nibble + 97 - 10

\* byteBuffer: the character written for a nibble.
NibbleChar(nibble) == IF nibble <= 9 THEN nibble + 48 ELSE nibble + 65 - 10

\* byteBuffer: the loop `for i := 5; i >= 0; i--`, from index i on.
RECURSIVE ByteBufferFrom(_, _)
ByteBufferFrom(m, i) ==
    IF i < 0 THEN <<>>
    ELSE (IF i # 5 THEN <<Colon>> ELSE <<>>)
         \o <<NibbleChar(m[i + 1] \div 16), NibbleChar(m[i + 1] % 16)>>
         \o ByteBufferFrom(m, i - 1)

\* MacAddress.String
ByteBuffer(m) == ByteBufferFrom(m, NumAddressBytes - 1)

ZeroMac == [i \in 1..NumAddressBytes |-> 0]

\* parseMacFromBuffer: the loop over the buffer, with the address and macIndex so far.
RECURSIVE ParseLoop(_, _, _)
ParseLoop(b, mac, macIndex) ==
    IF b = <<>>
    THEN [ok |-> macIndex = -1, mac |-> mac]
    ELSE LET c == Head(b)
             nibble == IF IsDigit(c) THEN c - 48
                       ELSE IF IsUpperHex(c) THEN c - 65 + 10 ELSE c - 97 + 10
             byteAt == GoQuot(macIndex, 2) + 1
         IN IF c = Colon THEN ParseLoop(Tail(b), mac, macIndex)
            ELSE IF ~(IsDigit(c) \/ IsUpperHex(c) \/ IsLowerHex(c))
                 THEN [ok |-> FALSE, mac |-> mac]
            ELSE IF macIndex < -1
                 THEN [ok |-> FALSE, mac |-> mac]
            ELSE ParseLoop(Tail(b),
                           [mac EXCEPT ![byteAt] =
                               IF GoRem(macIndex, 2) = 0
                               THEN BitOr(@, nibble)
                               ELSE BitOr(@, (nibble * 16) % 256)],
                           macIndex - 1)

\* ParseMAC
ParseMacFromBuffer(b) == ParseLoop(b, ZeroMac, MaxAddressBytesLength)

\* The bytes and the two-character groups the inputs are built from.
SampleBytes == {0, 26, 249}
SamplePairs == {<<48, 48>>, <<49, 97>>, <<70, 57>>, <<99, 68>>}
SampleAddresses == [1..NumAddressBytes -> SampleBytes]

TextOfPairs(ps) ==
    ps[1] \o <<Colon>> \o ps[2] \o <<Colon>> \o ps[3] \o <<Colon>> \o ps[4]
          \o <<Colon>> \o ps[5] \o <<Colon>> \o ps[6]

\* Texts in the 11:22:33:AA:BB:CC format, in either case.
SampleTexts == {TextOfPairs(ps) : ps \in [1..NumAddressBytes -> SamplePairs]}

\* Texts outside the format: empty, one digit short, one digit long, one with a
\* character that is no hex digit, one without colons.
OtherTexts ==
    {<<>>,
     SubSeq(TextOfPairs([i \in 1..NumAddressBytes |-> <<49, 97>>]), 1, 16),
     TextOfPairs([i \in 1..NumAddressBytes |-> <<49, 97>>]) \o <<55>>,
     TextOfPairs([i \in 1..NumAddressBytes |-> <<71, 48>>]),
     <<49, 97, 49, 97, 49, 97, 49, 97, 49, 97, 49, 97>>}

NoMac == [ok |-> FALSE, mac |-> ZeroMac]

IdleMacRun == [first |-> "none", pc |-> "idle", addrIn |-> ZeroMac, textIn |-> <<>>,
               addrOut |-> NoMac, textOut |-> <<>>]

InitMac == macRun = IdleMacRun

\* A caller holds an address and is about to format it.
TakeAddress(a) ==
    /\ macRun.pc = "idle"
    /\ macRun' = [IdleMacRun EXCEPT !.first = "format", !.pc = "start", !.addrIn = a]
    /\ UNCHANGED otherThanMac

\* A caller holds a text and is about to parse it.
TakeText(t) ==
    /\ macRun.pc = "idle"
    /\ macRun' = [IdleMacRun EXCEPT !.first = "parse", !.pc = "start", !.textIn = t]
    /\ UNCHANGED otherThanMac

\* MacAddress.String on the input address, or on the address ParseMAC returned.
FormatAddress ==
    /\ \/ macRun.first = "format" /\ macRun.pc = "start"
       \/ macRun.first = "parse" /\ macRun.pc = "half" /\ macRun.addrOut.ok
    /\ macRun' = [macRun EXCEPT
                    !.textOut = ByteBuffer(IF macRun.first = "format" THEN macRun.addrIn
                                           ELSE macRun.addrOut.mac),
                    !.pc = IF macRun.first = "format" THEN "half" ELSE "done"]
    /\ UNCHANGED otherThanMac

\* ParseMAC on the input text, or on the text String returned.
ParseText ==
    /\ \/ macRun.first = "parse" /\ macRun.pc = "start"
       \/ macRun.first = "format" /\ macRun.pc = "half"
    /\ macRun' = [macRun EXCEPT
                    !.addrOut = ParseMacFromBuffer(IF macRun.first = "parse" THEN macRun.textIn
                                                   ELSE macRun.textOut),
                    !.pc = IF macRun.first = "parse" THEN "half" ELSE "done"]
    /\ UNCHANGED otherThanMac

NextMac ==
    \/ \E a \in SampleAddresses : TakeAddress(a)
    \/ \E t \in SampleTexts \cup OtherTexts : TakeText(t)
    \/ FormatAddress
    \/ ParseText

\* ============================================================ Features

\* FeatureConnection .. FeatureMediaPlayer: 1 << iota, with iota from 1 to 6.
FeatureBits == {2, 4, 8, 16, 32, 64}

\* The argument lists of a variadic call: one or two features.
FeatureArgs == {<<f>> : f \in FeatureBits} \cup {<<f, g>> : f, g \in FeatureBits}

RECURSIVE BitAnd(_, _)
BitAnd(x, y) ==
    IF x = 0 \/ y = 0 THEN 0
    ELSE (IF x % 2 = 1 /\ y % 2 = 1 THEN 1 ELSE 0) + 2 * BitAnd(x \div 2, y \div 2)

\* Features.Add: `*c |= f` for each argument in turn.
RECURSIVE FeaturesAfterAdd(_, _)
FeaturesAfterAdd(c, fs) ==
    IF fs = <<>> THEN c ELSE FeaturesAfterAdd(BitOr(c, Head(fs)), Tail(fs))

\* Features.Remove: `*c &= f` for each argument in turn.
RECURSIVE FeaturesAfterRemove(_, _)
FeaturesAfterRemove(c, fs) ==
    IF fs = <<>> THEN c ELSE FeaturesAfterRemove(BitAnd(c, Head(fs)), Tail(fs))

FeaturesAdd(fs) ==
    /\ features' = FeaturesAfterAdd(features, fs)
    /\ lastFeatureOp' = [op |-> "add", args |-> fs, before |-> features]
    /\ UNCHANGED otherThanFeatures

FeaturesRemove(fs) ==
    /\ features' = FeaturesAfterRemove(features, fs)
    /\ lastFeatureOp' = [op |-> "remove", args |-> fs, before |-> features]
    /\ UNCHANGED otherThanFeatures

InitFeatures ==
    /\ features = 0
    /\ lastFeatureOp = [op |-> "none", args |-> <<>>, before |-> 0]

NextFeatures ==
    \/ \E fs \in FeatureArgs : FeaturesAdd(fs)
    \/ \E fs \in FeatureArgs : FeaturesRemove(fs)

\* ============================================================ BlueZ agent

NumAgentCalls == 2
AgentCalls == 1..NumAgentCalls
AgentMethods == {"RequestAuthorization", "AuthorizeService"}

\* cancelledBy: the call whose return or whose Cancel cancelled the token of this
\* call, 0 while the token is live.
NoAgentCall == [pc |-> "none", method |-> "none", addr |-> "none", cancelledBy |-> 0]

\* b.ctx.Cancel(): the token the field holds now is cancelled, on behalf of call i.
AfterCtxCancel(calls, held, i) ==
    IF held = 0 \/ calls[held].cancelledBy # 0 THEN calls
    ELSE [calls EXCEPT ![held].cancelledBy = i]

\* RequestAuthorization / AuthorizeService up to the call of the authorizer: the
\* address is resolved, b.ctx is overwritten with a new token, the authorizer is called.
AgentMethodEnter(i, method, addr) ==
    /\ agentCalls[i].pc = "none"
    /\ agentCalls' = [agentCalls EXCEPT ![i] = [NoAgentCall EXCEPT !.pc = "authorizing",
                                                                  !.method = method,
                                                                  !.addr = addr]]
    /\ agentCtx' = i
    /\ UNCHANGED otherThanAgent

\* The authorizer returns and the deferred b.Cancel() runs.
AgentMethodReturn(i) ==
    /\ agentCalls[i].pc = "authorizing"
    /\ agentCalls' = [AfterCtxCancel(agentCalls, agentCtx, i) EXCEPT ![i].pc = "done"]
    /\ UNCHANGED agentCtx
    /\ UNCHANGED otherThanAgent

\* BlueZ gives up request i and calls the agent's Cancel method.
AgentCancel(i) ==
    /\ agentCalls[i].pc = "authorizing"
    /\ agentCalls' = AfterCtxCancel(agentCalls, agentCtx, i)
    /\ UNCHANGED agentCtx
    /\ UNCHANGED otherThanAgent

InitAgent ==
    /\ agentCtx = 0
    /\ agentCalls = [i \in AgentCalls |-> NoAgentCall]

NextAgent ==
    \/ \E i \in AgentCalls, m \in AgentMethods, a \in AuthAddrs : AgentMethodEnter(i, m, a)
    \/ \E i \in AgentCalls : AgentMethodReturn(i)
    \/ \E i \in AgentCalls : AgentCancel(i)

\* ============================================================ SessionStore removals

\* RemoveAdapter / RemoveDevice: one Delete on the map. It may run between the Load and
\* the Store of an update of the same entry.
StoreRemove(kind, addr) ==
    /\ StoreBecomes(kind, MapDelete(StoreFor(kind), addr))
    /\ removedEntries' = removedEntries \cup {<<kind, addr>>}
    /\ UNCHANGED otherThanRemoval

InitRemoval == removedEntries = {}

NextStoreRemoval ==
    \/ NextStore
    \/ \E a \in AdapterAddrs : StoreRemove("adapter", a)
    \/ \E d \in DeviceAddrs : StoreRemove("device", d)

\* ============================================================ quit

QuitAdapters == {"A1", "A2", "A3"}
QuitReplies == {"y", "n"}

NoQuit == [result |-> "none", listed |-> {}, stopped |-> {}]

\* SessionStore.Adapters: the adapters held by the store; an empty store gives
\* (nil, "no adapters found").
StoreAdapters == {a \in QuitAdapters : quitStore[a] # "absent"}
AdaptersErr == StoreAdapters = {}
AdaptersList == IF AdaptersErr THEN {} ELSE StoreAdapters

\* quit: `if adapters, err := Adapters(); err != nil { for _, adapter := range adapters`:
\* the adapters the loop calls StopDiscovery on.
QuitStopTargets == IF AdaptersErr THEN AdaptersList ELSE {}

\* The configuration is loaded before the first quit.
SetConfirmOnQuit(b) ==
    /\ quitRun.result = "none"
    /\ confirmOnQuit # b
    /\ confirmOnQuit' = b
    /\ UNCHANGED <<quitStore, quitRun, otherThanQuit>>

\* SessionStore.AddAdapter while the application runs.
QuitAdapterAdded(a) ==
    /\ quitRun.result # "closed"
    /\ quitStore[a] = "absent"
    /\ quitStore' = [quitStore EXCEPT ![a] = "idle"]
    /\ UNCHANGED <<confirmOnQuit, quitRun, otherThanQuit>>

\* SessionStore.RemoveAdapter while the application runs.
QuitAdapterRemoved(a) ==
    /\ quitRun.result # "closed"
    /\ quitStore[a] # "absent"
    /\ quitStore' = [quitStore EXCEPT ![a] = "absent"]
    /\ UNCHANGED <<confirmOnQuit, quitRun, otherThanQuit>>

\* adapter.StartDiscovery on an adapter of the store.
QuitStartDiscovery(a) ==
    /\ quitRun.result # "closed"
    /\ quitStore[a] = "idle"
    /\ quitStore' = [quitStore EXCEPT ![a] = "discovering"]
    /\ UNCHANGED <<confirmOnQuit, quitRun, otherThanQuit>>

\* viewActions.quit: the confirmation, the StopDiscovery loop, app.Close().
Quit(reply) ==
    /\ quitRun.result # "closed"
    /\ IF confirmOnQuit /\ reply # "y"
       THEN /\ quitRun' = [NoQuit EXCEPT !.result = "declined"]
            /\ UNCHANGED quitStore
       ELSE /\ quitRun' = [result |-> "closed", listed |-> AdaptersList,
                           stopped |-> QuitStopTargets]
            /\ quitStore' = [a \in QuitAdapters |->
                                IF a \in QuitStopTargets /\ quitStore[a] = "discovering"
                                THEN "idle" ELSE quitStore[a]]
    /\ UNCHANGED <<confirmOnQuit, otherThanQuit>>

InitQuit ==
    /\ quitStore = [a \in QuitAdapters |-> "absent"]
    /\ confirmOnQuit = FALSE
    /\ quitRun = NoQuit

NextQuit ==
    \/ \E b \in BOOLEAN : SetConfirmOnQuit(b)
    \/ \E a \in QuitAdapters : QuitAdapterAdded(a)
    \/ \E a \in QuitAdapters : QuitAdapterRemoved(a)
    \/ \E a \in QuitAdapters : QuitStartDiscovery(a)
    \/ \E reply \in QuitReplies : Quit(reply)

\* ============================================================ specifications

Init == InitStore /\ InitRpc /\ InitBus /\ InitWire /\ InitAuth /\ InitBroker /\ InitObex
        /\ InitSession /\ InitControl /\ InitPush /\ InitPaths /\ InitSend /\ InitMac /\ InitFeatures /\ InitAgent /\ InitRemoval /\ InitQuit

Next == NextStore \/ NextRpc \/ NextBus \/ NextWire \/ NextAuth \/ NextBroker \/ NextObex
        \/ NextSession \/ NextControl \/ NextPush \/ NextPaths \/ NextSend \/ NextMac \/ NextFeatures \/ NextAgent \/ NextStoreRemoval \/ NextQuit

Spec == Init /\ [][Next]_vars

SpecStore == Init /\ [][NextStore]_vars

SpecRpc == Init /\ [][NextRpc]_vars

SpecBus == Init /\ [][NextBus]_vars

SpecWire == Init /\ [][NextWire]_vars

SpecAuth == Init /\ [][NextAuth]_vars

SpecBroker == Init /\ [][NextBroker]_vars

SpecObex == Init /\ [][NextObex]_vars

SpecSession == Init /\ [][NextSession]_vars

SpecControl == Init /\ [][NextControl]_vars

SpecPush == Init /\ [][NextPush]_vars

SpecPaths == Init /\ [][NextPaths]_vars

SpecSend == Init /\ [][NextSend]_vars

SpecMac == Init /\ [][NextMac]_vars

SpecFeatures == Init /\ [][NextFeatures]_vars

SpecAgent == Init /\ [][NextAgent]_vars

SpecStoreRemoval == Init /\ [][NextStoreRemoval]_vars

SpecQuit == Init /\ [][NextQuit]_vars

\* The socket is lost while subscriptions exist. The listener goroutine, the hub and
\* the forwarding goroutines are scheduled fairly; the application and the provider
\* are not obliged to act.
NextLoss ==
    \/ ProviderClose
    \/ ListenConnLost
    \/ Stop
    \/ NextBus

SpecLoss ==
    /\ Init /\ [][NextLoss]_vars
    /\ WF_vars(ListenConnLost)
    /\ \A s \in Subs : WF_vars(Forward(s)) /\ WF_vars(ForwardEnd(s)) /\ WF_vars(HubUnsub(s))

\* ============================================================ claims

\* Two updaters that both finished a successful update of the same entry, with no
\* other updater involved.
BothUpdated(u1, u2) ==
    /\ u1 # u2
    /\ upd[u1].pc = "done" /\ upd[u2].pc = "done"
    /\ upd[u1].err = "none" /\ upd[u2].err = "none"
    /\ upd[u1].kind = upd[u2].kind /\ upd[u1].addr = upd[u2].addr
    /\ \A u3 \in Updaters \ {u1, u2} : upd[u3].pc = "idle"

\* C1: for two concurrent updates f and g of the same entry, the stored snapshot
\* ends as g(f(s0)) or f(g(s0)): neither merge is lost.
C1_StoreAtomicity ==
    \A u1, u2 \in Updaters :
        BothUpdated(u1, u2) =>
            StoreOf(upd[u1].kind)[upd[u1].addr] \in
                { MergeInto(MergeInto(upd[u1].base, upd[u1].props), upd[u2].props),
                  MergeInto(MergeInto(upd[u2].base, upd[u2].props), upd[u1].props) }

\* C2: every caller that received a response received the one carrying its own
\* request id, answering its own command.
C2_RequestCorrelation ==
    \A c \in Callers :
        callers[c].result.kind \in {"reply", "error"} =>
            /\ callers[c].result.rid = callers[c].reqId
            /\ callers[c].result.data = ResultOf(callers[c].cmd)

\* Two callers with different commands have both received their replies.
C2_Witness ==
    \E c1, c2 \in Callers :
        /\ callers[c1].result.kind = "reply" /\ callers[c2].result.kind = "reply"
        /\ callers[c1].cmd # callers[c2].cmd
        /\ callers[c1].reqId > callers[c2].reqId

\* C3: a caller that finished waiting without a response having reached it
\* returned method-timeout, and a response that arrives for its id afterwards
\* stays in the abandoned channel: no caller receives it.
C3_TimeoutDiscardsLateResponse ==
    \A c \in Callers :
        /\ ( /\ callers[c].pc = "done"
             /\ callers[c].result # ErrWrite
             /\ MapLoadOk(requestMap, callers[c].reqId) )
           => callers[c].result = ErrMethodTimeout
        /\ ( callers[c].pc = "done" /\ chans[c].buf # <<>> )
           => /\ callers[c].result = ErrMethodTimeout
              /\ \A c2 \in Callers :
                    callers[c2].result.kind \in {"reply", "error"}
                        => callers[c2].result.rid # Head(chans[c].buf).request_id

\* A caller timed out and the response for its request arrived in its channel,
\* while the other caller got its own reply.
C3_Witness ==
    \E c1, c2 \in Callers :
        /\ callers[c1].result = ErrMethodTimeout
        /\ chans[c1].buf # <<>>
        /\ Head(chans[c1].buf).request_id = callers[c1].reqId
        /\ callers[c2].result.kind = "reply"

\* C4: every call that was awaiting its reply when the connection was lost
\* completes with session-stopped, and the session is marked closed.
C4_ConnectionLossStopsWaiters ==
    /\ \A c \in Callers :
          (callers[c].lostWhileWaiting /\ callers[c].pc = "done")
              => callers[c].result = ErrSessionStop
    /\ ~listening => sessionClosed

\* ------------------------------------------------------------ event bus claims

\* The number of times subscriber s holds or has consumed the event numbered n.
Count(seq, n) == Cardinality({i \in DOMAIN seq : seq[i].n = n})

Received(sub, n) ==
    Count(sub.C, n) + Count(sub.typed["added"], n) + Count(sub.typed["updated"], n)
        + Count(sub.typed["removed"], n)
        + Cardinality({i \in DOMAIN sub.consumed : sub.consumed[i].ev.n = n})

\* C6: for one publish, a live subscriber of the event id receives the event exactly
\* once when its buffer has room and not at all when it is full; no subscriber ever
\* holds the same published event twice. Stated per step: the hub's send puts the event
\* in the subscriber's channel when there is room, the forwarder hands the event it
\* takes to the channel of its action when that channel has room, and no event is
\* ever counted twice.
C6_FanOutExactlyOnce ==
    [][\A s \in Subs :
          /\ (pubCount' = pubCount + 1 /\ subs[s].registered
                  /\ pubLog'[pubCount + 1].group = subs[s].group)
                => IF Len(subs[s].C) < BusCapacity
                   THEN subs'[s].C = Append(subs[s].C, pubLog'[pubCount + 1])
                   ELSE subs'[s].C = subs[s].C
          /\ (subs[s].fwd = "running" /\ subs[s].C # <<>> /\ subs'[s].C = Tail(subs[s].C))
                => LET ev == Head(subs[s].C)
                   IN IF Len(subs[s].typed[ev.action]) < TypedCapacity
                      THEN subs'[s].typed[ev.action] = Append(subs[s].typed[ev.action], ev)
                      ELSE subs'[s].typed = subs[s].typed
          /\ \A n \in 1..pubCount' : Received(subs'[s], n) <= 1]_vars

\* True when some typed channel of the subscriber got a new event in this step.
Delivered(s) ==
    \E a \in Actions : Len(subs'[s].typed[a]) > Len(subs[s].typed[a])

\* C7 (as stated): once unsubscribe has been called no event is delivered on the
\* added, updated or removed channel, and the done signal fires exactly once.
C7_NoDeliveryAfterUnsubscribe ==
    /\ [][\A s \in Subs : subs[s].unsubCalls > 0 => ~Delivered(s)]_vars
    /\ [](\A s \in Subs : /\ subs[s].doneFires <= 1
                          /\ subs[s].fwd = "ended" => subs[s].doneFires = 1)

\* C7 (amended): once the done signal has fired no event is delivered on the added,
\* updated or removed channel; done fires only after unsubscribe was called, at most
\* once, and exactly once when the forwarder has terminated.
C7_NoDeliveryAfterDone ==
    /\ [][\A s \in Subs : subs[s].doneFires > 0 => ~Delivered(s)]_vars
    /\ [](\A s \in Subs : /\ subs[s].doneFires <= 1
                          /\ subs[s].doneFires > 0 => subs[s].unsubCalls > 0
                          /\ subs[s].fwd = "ended" => subs[s].doneFires = 1)

\* Done has fired for a subscriber that consumed an event, and an event was published
\* after the hub had closed the subscriber's channel.
C7_Witness ==
    \E s \in Subs :
        /\ subs[s].doneFires = 1
        /\ subs[s].consumed # <<>>
        /\ \E i \in DOMAIN pubLog :
              /\ pubLog[i].group = subs[s].group
              /\ Received(subs[s], pubLog[i].n) = 0
              /\ \A j \in DOMAIN subs[s].consumed : subs[s].consumed[j].ev.n < pubLog[i].n

\* C9 (as stated): a subscriber consumes the events of one event id in the order they
\* were published, also across actions.
C9_ConsumedInPublishOrder ==
    \A s \in Subs :
        \A i, j \in DOMAIN subs[s].consumed :
            i < j => subs[s].consumed[i].ev.n < subs[s].consumed[j].ev.n

\* C9 (amended): the events a subscriber consumes from the same action channel are in
\* the order they were published.
C9_ConsumedInPublishOrderPerAction ==
    \A s \in Subs :
        \A i, j \in DOMAIN subs[s].consumed :
            (i < j /\ subs[s].consumed[i].chan = subs[s].consumed[j].chan)
                => subs[s].consumed[i].ev.n < subs[s].consumed[j].ev.n

\* A subscriber has consumed two events of the same action, and one of another action.
C9_Witness ==
    \E s \in Subs :
        \E i, j, k \in DOMAIN subs[s].consumed :
            /\ i < j
            /\ subs[s].consumed[i].chan = subs[s].consumed[j].chan
            /\ subs[s].consumed[k].chan # subs[s].consumed[i].chan

\* ------------------------------------------------------------ socket event claims

\* C5: events are published to the event bus in the order they appear on the wire: if
\* e1 precedes e2 on the socket, the publish of e1 happens before the publish of e2.
C5_PublishedInWireOrder ==
    \A i, j \in DOMAIN pubLog :
        (i < j /\ pubLog[i].w > 0 /\ pubLog[j].w > 0) => pubLog[i].w <= pubLog[j].w

\* Every line the provider wrote about the object came after s subscribed, and the
\* object was not known at start.
FirstObservedAfter(s, group, obj) ==
    /\ ~MapLoadOk(IF group = "adapter" THEN [a \in AdapterAddrs |-> TRUE]
                  ELSE [d \in DeviceAddrs |-> TRUE], obj)
    /\ \A k \in DOMAIN wireLog :
          (wireLog[k].group = group /\ wireLog[k].obj = obj) => k > subs[s].subscribedAt

\* C8: for every object first observed after a subscription started, the subscriber
\* sees the object's Added event before any Updated event for the same object.
C8_AddedBeforeUpdated ==
    \A s \in Subs :
        \A j \in DOMAIN subs[s].consumed :
            (/\ subs[s].consumed[j].chan = "updated"
             /\ FirstObservedAfter(s, subs[s].group, subs[s].consumed[j].ev.obj))
                => \E i \in 1..(j - 1) :
                      /\ subs[s].consumed[i].chan = "added"
                      /\ subs[s].consumed[i].ev.obj = subs[s].consumed[j].ev.obj

\* ------------------------------------------------------------ authorization claims

\* C10: when the authorizer has not replied by the deadline of a request, the broker
\* replies "rejected" to the provider at most one second after the deadline, whatever
\* the authorizer does: no request is still unanswered later than that, and a reply
\* given after the deadline is the rejection.
C10_RejectedByDeadline ==
    /\ (authReq.pc \notin {"idle", "replied"}) => now <= authReq.deadline + 1
    /\ (authReq.pc = "returned" /\ now >= authReq.deadline + 1) => authReq.err

\* C11: when the user does not respond to an authorization prompt by the deadline, the
\* authorizer call returns a cancellation error when the deadline expires: no call is
\* still at its prompt after the deadline, and a call that returns at or after the
\* deadline without an answer returns an error.
C11_AuthorizerReturnsAtDeadline ==
    (authReq.pc \in {"waiting", "blocked"}) => now <= authReq.deadline

C15_AlwaysAuthorizeIsSticky ==
    [][("service" \in alwaysFrom /\ authReq.kind = "service")
          => /\ (authReq.pc = "called" /\ authReq'.pc # "called")
                   => (authReq'.pc = "returned" /\ ~authReq'.err /\ ~authReq'.prompted)
             /\ (authReq.pc = "returned" /\ ~authReq.prompted /\ authReq'.pc = "replied")
                   => authReq'.reply = "accepted"]_vars

\* After an "always" answer to a service prompt, a later service request has been
\* accepted without a prompt.
C15_Witness ==
    /\ "service" \in alwaysFrom
    /\ authReq.kind = "service"
    /\ authReq.guard = "initialized"
    /\ authReq.pc = "replied"
    /\ ~authReq.prompted
    /\ authReq.reply = "accepted"

\* ------------------------------------------------------------ concurrent authorization claims

\* C13: concurrent authorization requests for the same address are serialized: at most
\* one authorizer call per address is in progress at any time (requests for distinct
\* addresses may be in progress together).
C13_SerializedPerAddress ==
    \A i, j \in AuthCalls :
        (i # j /\ authCalls[i].pc = "authorizing" /\ authCalls[j].pc = "authorizing")
            => authCalls[i].addr # authCalls[j].addr

\* The object push events a subscriber has taken for a transfer that carry a status.
ObservedOf(s, t) ==
    SelectSeq(subs[s].consumed,
              LAMBDA e : e.ev.group = "objectpush" /\ e.ev.obj.t = t /\ e.ev.obj.status # "")

\* The signals of obexd about a transfer that carry its Status.
ReportedOf(t) ==
    SelectSeq(obexLog, LAMBDA sig : sig.t = t /\ "Status" \in sig.props)

TransitionReported(t, a, b) ==
    \E k \in 1..(Len(ReportedOf(t)) - 1) :
        ReportedOf(t)[k].status = a /\ ReportedOf(t)[k + 1].status = b

TerminalObserved(t) ==
    \E s \in Subs : \E k \in 1..Len(subs[s].consumed) :
        /\ subs[s].consumed[k].chan = "updated"
        /\ subs[s].consumed[k].ev.obj.t = t
        /\ subs[s].consumed[k].ev.obj.status \in TerminalStatuses

\* C17: a transfer that has reached complete or error is not in the set of transfers
\* of its session in the session table.
C17_TerminalTransferLeavesSession ==
    \A t \in Transfers :
        TerminalObserved(t) => ~(pSessions.registered /\ t \in pSessions.transfers)

\* The signals, hub channel and typed channels hold nothing that is still to be handled.
AllDelivered ==
    /\ obexSignals = <<>>
    /\ \A s \in Subs : subs[s].C = <<>> /\ \A a \in Actions : subs[s].typed[a] = <<>>

\* send has registered its session and obexd has finished every transfer of it.
AllTransfersTerminal ==
    /\ sendOp.pc = "registered"
    /\ \A i \in 1..Len(sendOp.proplist) :
          provTransfers[sendOp.proplist[i]] \in TerminalStatuses \cup {"removed"}

\* C18: once every transfer of a registered session is complete or error and every
\* event about them has been handled, RemoveSession has been issued and the session
\* has left the session table.
C18_SessionClosedWhenAllTerminal ==
    (AllTransfersTerminal /\ AllDelivered) =>
        (removeSessionCalls > 0 /\ ~pSessions.registered)

\* C19: suspend, resume and cancel invoked through the object push interface on an
\* inbound transfer are rejected with a not-supported error and send no command.
C19_InboundOpsRejected ==
    \A k \in 1..Len(oppLog) :
        (oppLog[k].from = "api" /\ oppLog[k].receiving) =>
            oppLog[k].outcome = "not-supported"

\* CreateSession has returned after its context was cancelled before the provider
\* replied.
ReturnedAfterEarlyCancel(i) ==
    createCalls[i].pc = "returned" /\ createCalls[i].early

\* C20: after a CreateSession whose context was cancelled before the provider replied
\* has returned, no session is open at the provider or registered in the core.
C20_CancelledSessionTornDown ==
    \A i \in CreateCalls :
        ReturnedAfterEarlyCancel(i) =>
            (createCalls[i].provider # "open" /\ ~createCalls[i].registered)

\* The progress events (Added or Updated) published for inbound transfer i.
ProgressEventsOf(i) ==
    {k \in 1..Len(pubLog) : /\ pubLog[k].group = "objectpush"
                            /\ pubLog[k].action \in {"added", "updated"}
                            /\ pubLog[k].obj.t = i}

\* C21: when the authorizer has returned an error for an inbound transfer, no Added or
\* Updated object push event has been published for it and its file is not in the
\* receive directory.
C21_DeniedTransferIsSilent ==
    \A i \in PushCalls :
        pushCalls[i].denied => (ProgressEventsOf(i) = {} /\ i \notin receiveDir)

\* The device paths below an adapter path, and the addresses of those devices.
DevicesBelow(adapterPath) == {d \in DevicePaths : Dir(d) = adapterPath}

\* A mapping that belongs to an adapter: a device path below it, or an OBEX session or
\* transfer path mapped to the address of a device below it.
BelongsTo(k, adapterPath) ==
    \/ k.pathType = "device" /\ Dir(k.path) = adapterPath
    \/ /\ k.pathType \in {"session", "transfer"}
       /\ \E d \in DevicesBelow(adapterPath) : paths[k] = PathAddress(d)

\* C22 (as stated): after an adapter path is removed, no device, OBEX session or OBEX
\* transfer path belonging to that adapter is mapped.
C22_CascadeRemovesDescendants ==
    \A p \in removedAdapters : \A k \in DOMAIN paths : ~BelongsTo(k, p)

\* C22 (amended): after an adapter path is removed, neither the adapter path nor any
\* device path below it is mapped.
C22_CascadeRemovesDevices ==
    \A p \in removedAdapters :
        /\ ~MapLoadOk(paths, PathKey("adapter", p))
        /\ \A k \in DOMAIN paths : ~(k.pathType = "device" /\ Dir(k.path) = p)

\* hci0 was removed while its device dev1 was mapped: an OBEX session of dev1 is still
\* mapped and no device path below hci0 is.
C22_Witness ==
    /\ <<"hci0">> \in removedAdapters
    /\ MapLoadOk(paths, PathKey("session", ObexSessionPath))
    /\ paths[PathKey("session", ObexSessionPath)] = "D1"

\* The provider reported the removal of adapter a, every line written so far was
\* handled, and the provider does not report a any more.
AdapterRemovalHandled(a) ==
    /\ \E k \in DOMAIN wireLog :
          wireLog[k].group = "adapter" /\ wireLog[k].action = "removed" /\ wireLog[k].obj = a
    /\ <<"adapter", a>> \notin provObjs
    /\ connIn = <<>>
    /\ \A w \in DOMAIN wireLog : handlers[w].pc = "returned"

\* C23: after the provider reports the removal of adapter a, the store has no adapter a
\* and no device whose associated adapter is a.
C23_AdapterRemovalRemovesDevices ==
    \A a \in {"A1", "A2"} :
        AdapterRemovalHandled(a) =>
            /\ ~MapLoadOk(adapters, a)
            /\ \A d \in DOMAIN devices : AssociatedAdapter(d) # a

\* ------------------------------------------------------------ session end claims

\* C24: on loss of the control connection the session closes and the done signal of
\* every live subscription fires.
C24_ConnectionLossEndsSubscriptions ==
    \A s \in Subs :
        (peerClosed /\ subs[s].state = "live")
            ~> (sessionClosed /\ subs[s].doneFires > 0)

\* C25: once the session is closed, by Stop or by the loss of the socket, a further
\* Stop called by the application (a step that is not the listener's) leaves the
\* session as it is and returns what the first Stop returned, nil.
C25_StopIsIdempotent ==
    [][(sessionClosed /\ listening' = listening) =>
          /\ stopResult' = "ok"
          /\ sessionClosed' /\ ctxDone' = ctxDone /\ connClosed' = connClosed]_vars

\* ------------------------------------------------------------ failed merge claim

\* C26: when the merge function of UpdateAdapter or UpdateDevice returns an error, the
\* call leaves the stored snapshots exactly as they were.
C26_FailedMergeLeavesStore ==
    [][\A u \in Updaters :
          (upd[u].pc = "loaded" /\ upd'[u].pc = "done" /\ upd'[u].err = "merge-error")
              => (adapters' = adapters /\ devices' = devices)]_vars

\* An update failed in its merge function after changing its local copy, and the
\* stored snapshot differs from that copy.
C26_Witness ==
    \E u \in Updaters :
        /\ upd[u].pc = "done" /\ upd[u].err = "merge-error"
        /\ upd[u].local # upd[u].base
        /\ StoreOf(upd[u].kind)[upd[u].addr] = upd[u].base

\* ------------------------------------------------------------ send serialization claim

\* A send is inside a provider call of its creation sequence, CreateSession or
\* SendFile, and was not cancelled.
InCreation(i) == sends[i].pc \in {"creating", "sending"} /\ ~sends[i].cancelled

\* C27: at most one transfer creation (the CreateSession / SendFile sequence) is in
\* progress per address at any time.
C27_OneCreationPerAddress ==
    \A i, j \in Sends :
        (i # j /\ InCreation(i) /\ InCreation(j)) => sends[i].addr # sends[j].addr

\* ------------------------------------------------------------ address text claim

\* A text in the 11:22:33:AA:BB:CC format: six groups of two hex digits, of either
\* case, separated by colons.
ValidText(t) ==
    /\ Len(t) = 17
    /\ \A k \in 1..17 :
          IF k % 3 = 0 THEN t[k] = Colon
          ELSE IsDigit(t[k]) \/ IsUpperHex(t[k]) \/ IsLowerHex(t[k])

\* The text with its hex digits in upper case.
Uppercased(t) == [k \in DOMAIN t |-> IF IsLowerHex(t[k]) THEN t[k] - 32 ELSE t[k]]

\* C28: for every address a, ParseMAC(a.String()) is a; for every text s in the address
\* format, ParseMAC(s).String() is s with its hex digits in upper case.
C28_AddressRoundTrip ==
    /\ (macRun.first = "format" /\ macRun.pc = "done")
          => (macRun.addrOut.ok /\ macRun.addrOut.mac = macRun.addrIn)
    /\ (macRun.first = "parse" /\ macRun.pc # "start" /\ ValidText(macRun.textIn))
          => macRun.addrOut.ok
    /\ (macRun.first = "parse" /\ macRun.pc = "done" /\ ValidText(macRun.textIn))
          => macRun.textOut = Uppercased(macRun.textIn)

\* A text with lower-case digits was parsed and formatted again, and came back changed.
C28_Witness ==
    /\ macRun.first = "parse" /\ macRun.pc = "done"
    /\ ValidText(macRun.textIn)
    /\ macRun.textOut # macRun.textIn
    /\ macRun.addrOut.mac[1] # macRun.addrOut.mac[6]

\* ------------------------------------------------------------ feature set claim

Provided(fs) == {fs[k] : k \in DOMAIN fs}

\* C29: after Features.Remove none of the provided feature bits is set, and every other
\* bit that was set before is still set.
C29_RemoveClearsProvidedBits ==
    lastFeatureOp.op = "remove" =>
        /\ \A f \in Provided(lastFeatureOp.args) : BitAnd(features, f) = 0
        /\ \A f \in FeatureBits \ Provided(lastFeatureOp.args) :
              BitAnd(lastFeatureOp.before, f) # 0 => BitAnd(features, f) # 0

\* ------------------------------------------------------------ store before publish claim

\* C30: when an Added event for an adapter or a device is published, the store already
\* holds that object.
C30_AddedAfterStored ==
    [][\A k \in DOMAIN pubLog' :
          (/\ k > Len(pubLog)
           /\ pubLog'[k].action = "added"
           /\ pubLog'[k].group \in {"adapter", "device"})
              => MapLoadOk(StoreFor(pubLog'[k].group), pubLog'[k].obj)]_vars

\* ------------------------------------------------------------ request map claim

\* C31: the request map never keeps an entry for a request whose caller has already
\* returned, whether the response arrived, the wait timed out or the write failed.
C31_NoEntryForReturnedCaller ==
    \A c \in Callers :
        (callers[c].pc = "done" /\ callers[c].reqId > 0)
            => ~MapLoadOk(requestMap, callers[c].reqId)

\* ------------------------------------------------------------ parallel authorization claim

\* C32: the completion or the provider-side Cancel of one authorization request never
\* cancels the token of a different request that is in progress for another address.
C32_OtherRequestNotCancelled ==
    \A j \in AgentCalls :
        (agentCalls[j].pc = "authorizing" /\ agentCalls[j].cancelledBy \notin {0, j})
            => agentCalls[agentCalls[j].cancelledBy].addr = agentCalls[j].addr

\* ------------------------------------------------------------ update against removal claim

\* C33: once a removal of entry x has returned and no update is between its Load and
\* its Store, the store holds no entry for x: a concurrent update does not bring a
\* removed entry back. (Nothing adds entries in this specification.)
C33_RemovedEntryStaysRemoved ==
    \A x \in removedEntries :
        (\A u \in Updaters : upd[u].pc # "loaded") => ~MapLoadOk(StoreFor(x[1]), x[2])

\* ------------------------------------------------------------ sibling transfer claim

\* C34: RemoveSession is issued for a registered session only when every transfer of
\* the session has ended at obexd: a session that still has a queued, active or
\* suspended transfer is not closed because a sibling transfer ended.
C34_SessionOutlivesSibling ==
    [][(removeSessionCalls' > removeSessionCalls /\ pSessions.registered)
          => \A t \in pSessions.transfers :
                provTransfers[t] \in TerminalStatuses \cup {"removed"}]_vars

\* ------------------------------------------------------------ adapter removal frame claim

\* C35: removing adapter path P leaves every mapping that is neither P nor below P as
\* it was; devices of other adapters stay resolvable.
C35_RemovalKeepsOtherMappings ==
    [][\A P \in AdapterPaths :
          (P \notin removedAdapters /\ P \in removedAdapters')
              => \A k \in DOMAIN paths :
                    (k.path # P /\ Dir(k.path) # P)
                        => (MapLoadOk(paths', k) /\ paths'[k] = paths[k])]_vars

\* ------------------------------------------------------------ updated and removed delivery claim

\* C36: an event published with PublishUpdated or PublishRemoved on any event group, the
\* media group included, is handed by the forwarder of a live subscriber to the
\* UpdatedEvents or RemovedEvents channel whenever that channel has room.
C36_UpdatedAndRemovedDelivered ==
    [][\A s \in Subs :
          (/\ subs[s].fwd = "running" /\ subs[s].C # <<>>
           /\ subs'[s].C = Tail(subs[s].C)
           /\ Head(subs[s].C).action \in {"updated", "removed"}
           /\ Len(subs[s].typed[Head(subs[s].C).action]) < TypedCapacity)
              => subs'[s].typed[Head(subs[s].C).action]
                    = Append(subs[s].typed[Head(subs[s].C).action], Head(subs[s].C))]_vars

\* ------------------------------------------------------------ one operation claim

\* A started operation that is running under the operation guard: its goroutine is in
\* the cancellable call (CreateSession) and it was not cancelled.
OperationRunning(i) == sends[i].pc = "creating" /\ ~sends[i].cancelled

\* C37: while an operation is running, every other startOperation is refused, also
\* when an earlier, cancelled operation finishes meanwhile: at most one started
\* operation is running and uncancelled at any time.
C37_OneOperationRunning ==
    \A i, j \in Sends : (OperationRunning(i) /\ OperationRunning(j)) => i = j

\* ------------------------------------------------------------ always-authorize source claim

\* C38: the always-authorize bit, which makes AuthorizeService return without a prompt,
\* is set only by an "always" answer to a service prompt, never by an answer to a
\* file-transfer prompt.
C38_AlwaysOnlyFromService ==
    alwaysAuthorize => "service" \in alwaysFrom

\* ------------------------------------------------------------ progress counter claim

\* The transfers the monitor holds a property for.
Tracked == {t \in Transfers : sessionMap[t] # "none"}

\* C39: the progress counter equals the number of transfers the monitor tracks, for
\* every order in which the events of a transfer are consumed.
C39_TotalCountsTracked == total = Uint32Of(Cardinality(Tracked))

\* ------------------------------------------------------------ quit claim

\* C40: when quit has closed the application, StopDiscovery was invoked on every adapter
\* that Session.Adapters() returned to it.
C40_QuitStopsDiscovery ==
    quitRun.result = "closed" => quitRun.listed \subseteq quitRun.stopped

=============================================================================
